---- MODULE Spec2Model ----
(***************************************************************************)
(* The tile cache and image pipeline of the sky map (legacy/src):          *)
(*   SpaceBackgroundTiles      background_tiles.py                         *)
(*   AstronomicalImageHandler  image_handler.py                            *)
(*                                                                         *)
(* Angles are fixed point: an integer is a number of millidegrees, so      *)
(* 10001 is 10.001 degrees.  Inputs are chosen off the rounding ties of    *)
(* the two-decimal format (no |v| with v % 10 = 5), where the binary       *)
(* value of the float would decide.                                        *)
(***************************************************************************)
EXTENDS Integers, Sequences, FiniteSets, TLC

(***************************************************************************)
(* Bounds of the model.                                                    *)
(***************************************************************************)
MaxCalls == 3       \* calls of _get_or_create_tile started in one run
MaxGridCalls == 2   \* calls of get_background_tiles in one run
MaxMapCalls == 3    \* calls of update_map in one run

\* range(-2, 3): the offsets of the tiles, five a side.
GridReach == 2
GridSide == 5

\* The threads that call _get_or_create_tile concurrently.
Callers == {1, 2}

(***************************************************************************)
(* Text of numbers.                                                        *)
(***************************************************************************)
Abs(v) == IF v < 0 THEN -v ELSE v

TwoDigits(n) == IF n < 10 THEN "0" \o ToString(n) ELSE ToString(n)

\* f"{x:.2f}" of x = v/1000: rounded to hundredths, the sign kept even when
\* the digits are all zero ("-0.00").
Fmt2(v) ==
    LET h == (Abs(v) + 5) \div 10
    IN  (IF v < 0 THEN "-" ELSE "") \o ToString(h \div 100) \o "."
            \o TwoDigits(h % 100)

(***************************************************************************)
(* Bytes, base64 text and data URIs.  An image file is known by its        *)
(* format, by what produced it and by what it shows.                       *)
(***************************************************************************)
JpegPrefix == "data:image/jpeg;base64,"
SvgPrefix == "data:image/svg+xml;base64,"

EmptyBytes == [fmt |-> "", prov |-> "empty", survey |-> "", id |-> <<>>]

\* base64.b64encode(b).decode() and base64.b64decode(s)
B64Encode(b) == [b64 |-> b]
B64Decode(s) == s.b64

\* f"data:image/jpeg;base64,{img_str}"
JpegUri(bytes) == [prefix |-> JpegPrefix, payload |-> B64Encode(bytes)]

\* What a call returns when it returns None, and the value of a local that
\* is not assigned yet.
None == [prefix |-> "None", payload |-> B64Encode(EmptyBytes)]

\* tile_data.split(',')[1]
Payload(uri) == uri.payload

(***************************************************************************)
(* Responses of the SkyView service to requests.get.                       *)
(***************************************************************************)
NoResponse == [err |-> "unset", status |-> 0, ctype |-> "", decodable |-> FALSE]

Responses ==
    { [err |-> "timeout", status |-> 0, ctype |-> "", decodable |-> FALSE],
      [err |-> "none", status |-> 200, ctype |-> "image/jpeg", decodable |-> TRUE],
      [err |-> "none", status |-> 200, ctype |-> "image/jpeg", decodable |-> FALSE],
      [err |-> "none", status |-> 200, ctype |-> "text/html", decodable |-> FALSE],
      [err |-> "none", status |-> 500, ctype |-> "image/jpeg", decodable |-> TRUE],
      [err |-> "none", status |-> 206, ctype |-> "image/jpeg", decodable |-> TRUE] }

\* The responses the concurrent callers of the tile cache meet.
TileResponses ==
    { rs \in Responses : rs.err = "timeout" \/ (rs.ctype = "image/jpeg" /\ rs.status = 200) }

\* 'image' in response.headers.get('content-type', '')
IsImageType(ctype) == ctype \in {"image/jpeg", "image/gif", "image/png"}

(***************************************************************************)
(* SpaceBackgroundTiles                                                    *)
(***************************************************************************)
background_surveys ==
    [optical |-> "DSS2 Red", infrared |-> "2MASS-J", radio |-> "NVSS", xray |-> "RASS"]

\* self.background_surveys.get(survey, 'DSS2 Red')
SurveyName(survey) ==
    IF survey \in DOMAIN background_surveys THEN background_surveys[survey]
    ELSE "DSS2 Red"

\* A key made of the values as they come, all their digits kept.
CacheKeyExact(r) ==
    r.survey \o "_" \o ToString(r.ra) \o "_" \o ToString(r.dec) \o "_" \o ToString(r.size)

\* cache_key = f"{survey}_{ra:.2f}_{dec:.2f}_{size:.2f}"
CacheKey(r) ==
    r.survey \o "_" \o Fmt2(r.ra) \o "_" \o Fmt2(r.dec) \o "_" \o Fmt2(r.size)

\* self.cache_dir / f"{cache_hash}.jpg", cache_hash the MD5 digest of the key.
\* The digest is taken as free of collisions: it is kept as the key it digests.
CacheFile(key) == "md5(" \o key \o ").jpg"

\* np.random.seed(int((ra * 1000 + dec * 1000) % 10000)); Python's % of a
\* positive modulus is never negative, as is TLA+'s.
Seed(ra, dec) == (ra + dec) % 10000

\* Line 203: np.random.random() < 0.3, drawn once the stars of lines 189-193
\* are drawn.  The generator (MT19937) is a fixed function of the seed.  The
\* requests of the model give the seeds 0, 2, 3, 5, 7, 8, 10, 2500, 5000
\* and 7500; of these the stream takes the branch for 2, 7 and 7500.
NebulaSeeds == {2, 7, 7500}

NebulaDrawn(seed) == seed \in NebulaSeeds

\* The nebula branch calls np.random.choice on a list of three tuples, an
\* array of two dimensions, and numpy raises ValueError("a must be
\* 1-dimensional").
SynthesisRaises(seed) == NebulaDrawn(seed)

StaticTile ==
    [prefix |-> SvgPrefix,
     payload |-> B64Encode([fmt |-> "SVG", prov |-> "static", survey |-> "", id |-> <<256>>])]

ProceduralBytes(seed) ==
    [fmt |-> "JPEG", prov |-> "procedural", survey |-> "", id |-> <<seed>>]

\* A generator without its except branch: the error of the synthesis ends
\* the call and the caller is left with nothing.
CreateProceduralSpaceTileUnguarded(ra, dec, size) ==
    IF SynthesisRaises(Seed(ra, dec)) THEN None
    ELSE JpegUri(ProceduralBytes(Seed(ra, dec)))

\* _create_procedural_space_tile(ra, dec, size)
CreateProceduralSpaceTile(ra, dec, size) ==
    IF SynthesisRaises(Seed(ra, dec)) THEN StaticTile
    ELSE JpegUri(ProceduralBytes(Seed(ra, dec)))

\* The picture SkyView serves for the parameters of a request, after
\* _enhance_background_image and the JPEG encoder.
EnhancedBytes(r) ==
    [fmt |-> "JPEG", prov |-> "enhanced", survey |-> SurveyName(r.survey),
     id |-> <<r.ra, r.dec, r.size>>]

\* _create_space_tile(ra, dec, size, survey), given the response (or the
\* exception) of requests.get
CreateSpaceTile(r, resp) ==
    IF resp.err # "none" THEN CreateProceduralSpaceTile(r.ra, r.dec, r.size)
    ELSE IF resp.status = 200 /\ IsImageType(resp.ctype)
         THEN IF resp.decodable THEN JpegUri(EnhancedBytes(r))
              ELSE CreateProceduralSpaceTile(r.ra, r.dec, r.size)
         ELSE CreateProceduralSpaceTile(r.ra, r.dec, r.size)

\* tile_data.startswith('data:image/jpeg;base64,')
IsJpegUri(tile) == tile.prefix = JpegPrefix

(***************************************************************************)
(* AstronomicalImageHandler                                                *)
(***************************************************************************)
skyview_surveys ==
    [optical |-> "DSS2 Red", infrared |-> "2MASS-J", radio |-> "NVSS", xray |-> "RASS",
     gamma |-> "Fermi 5"]

\* self.skyview_surveys.get(survey, 'DSS2 Red')
SkyviewSurveyName(survey) ==
    IF survey \in DOMAIN skyview_surveys THEN skyview_surveys[survey] ELSE "DSS2 Red"

\* telescope_surveys.get(telescope_name, 'optical')
TelescopeSurvey(telescope) ==
    CASE telescope = "Hubble Space Telescope" -> "optical"
      [] telescope = "James Webb Space Telescope" -> "infrared"
      [] telescope = "Chandra X-ray Observatory" -> "xray"
      [] telescope = "Spitzer Space Telescope" -> "infrared"
      [] telescope = "Fermi Gamma-ray Space Telescope" -> "gamma"
      [] OTHER -> "optical"

\* The digits after the point of str(x) for x = v/1000: trailing zeros are
\* dropped, one digit is kept.
FracDigits(m) ==
    IF m % 100 = 0 THEN ToString(m \div 100)
    ELSE IF m % 10 = 0 THEN TwoDigits(m \div 10)
    ELSE (IF m < 100 THEN "0" ELSE "") \o TwoDigits(m \div 10) \o ToString(m % 10)

\* str(x) of a float x = v/1000 >= 0, as f"{size}" writes it ("0.5", "0.3").
PyStr(v) == ToString(v \div 1000) \o "." \o FracDigits(v % 1000)

\* cache_key = f"{obj_name}_{survey}_{size}"
ImageKey(obj_name, survey, size) == obj_name \o "_" \o survey \o "_" \o PyStr(size)

\* int(x) of x = n/d: towards zero.
Trunc(n, d) == IF n >= 0 THEN n \div d ELSE -((-n) \div d)

\* np.random.seed(int(ra * dec) % 1000)
FallbackSeed(ra, dec) == Trunc(ra * dec, 1000000) % 1000

\* _create_fallback_image(obj_name, ra, dec): nothing in it raises for
\* finite coordinates.
CreateFallbackImage(obj_name, ra, dec) ==
    JpegUri([fmt |-> "JPEG", prov |-> "procedural", survey |-> "",
             id |-> <<200, 150, FallbackSeed(ra, dec)>>])

\* _fetch_skyview_image: the body of the response, or None (FALSE here).
FetchGivesImage(rs) == rs.err = "none" /\ rs.status = 200 /\ IsImageType(rs.ctype)

EmptyString == [prefix |-> "", payload |-> B64Encode(EmptyBytes)]

\* _convert_to_base64(image_data) of the body served for a request
ConvertToBase64(rs, survey, ra, dec, size) ==
    IF rs.decodable
    THEN JpegUri([fmt |-> "JPEG", prov |-> "enhanced", survey |-> SkyviewSurveyName(survey),
                  id |-> <<300, ra, dec, size>>])
    ELSE EmptyString

\* Lines 40-52 of get_object_image: what a miss returns and caches.
ObjectImage(rs, obj_name, ra, dec, survey, size) ==
    IF FetchGivesImage(rs) THEN ConvertToBase64(rs, survey, ra, dec, size)
    ELSE CreateFallbackImage(obj_name, ra, dec)

(***************************************************************************)
(* CelestialImageGallery._fetch_survey_image                               *)
(***************************************************************************)
\* response.content: the body as the service sent it, not opened by PIL.
FetchedBytes(survey_name, ra, dec) ==
    [fmt |-> "unknown", prov |-> "fetched", survey |-> survey_name, id |-> <<400, ra, dec>>]

\* A fetcher that takes any status from 200 to 299.
FetchSurveyImageAny2xx(rs, survey_name, ra, dec) ==
    IF rs.err = "none" /\ rs.status \in 200..299 /\ IsImageType(rs.ctype)
    THEN JpegUri(FetchedBytes(survey_name, ra, dec))
    ELSE None

\* _fetch_survey_image(ra, dec, survey, metadata), given the response (or the
\* exception) of requests.get: the data URI of the body, or None.
FetchSurveyImage(rs, survey_name, ra, dec) ==
    IF rs.err = "none" /\ rs.status = 200 /\ IsImageType(rs.ctype)
    THEN JpegUri(FetchedBytes(survey_name, ra, dec))
    ELSE None

(***************************************************************************)
(* CelestialImageGallery                                                   *)
(***************************************************************************)
\* self.surveys, category by category, in the order of the dict.
surveys ==
    << [category |-> "optical", survey |-> "DSS2 Red", telescope |-> "Palomar/UK Schmidt"],
       [category |-> "optical", survey |-> "DSS2 Blue", telescope |-> "Palomar/UK Schmidt"],
       [category |-> "optical", survey |-> "SDSS DR7", telescope |-> "Sloan Digital Sky Survey"],
       [category |-> "infrared", survey |-> "2MASS-J", telescope |-> "2MASS"],
       [category |-> "infrared", survey |-> "2MASS-H", telescope |-> "2MASS"],
       [category |-> "infrared", survey |-> "2MASS-K", telescope |-> "2MASS"],
       [category |-> "infrared", survey |-> "WISE 3.4", telescope |-> "WISE"],
       [category |-> "infrared", survey |-> "WISE 4.6", telescope |-> "WISE"],
       [category |-> "xray", survey |-> "RASS", telescope |-> "ROSAT"],
       [category |-> "radio", survey |-> "NVSS", telescope |-> "VLA"],
       [category |-> "radio", survey |-> "FIRST", telescope |-> "VLA"] >>

SurveyNames == { surveys[n].survey : n \in 1..Len(surveys) }

\* The keys of hubble_objects and of jwst_objects.
hubble_objects == {"Orion Nebula", "Crab Nebula", "Andromeda Galaxy"}
jwst_objects == {"Orion Nebula", "Crab Nebula"}

ThreeDigits(n) == IF n < 100 THEN "0" \o TwoDigits(n) ELSE ToString(n)

\* The coordinates of the gallery are whole numbers of 1e-4 degree, so that
\* two of them can differ past the third decimal.
\* f"{x:.3f}" of x = v/10000: rounded to thousandths, the sign kept.
Fmt3(v) ==
    LET h == (Abs(v) + 5) \div 10
    IN  (IF v < 0 THEN "-" ELSE "") \o ToString(h \div 1000) \o "."
            \o ThreeDigits(h % 1000)

\* cache_key = f"gallery_{obj_name}_{ra:.3f}_{dec:.3f}"
GalleryKey(obj_name, ra, dec) ==
    "gallery_" \o obj_name \o "_" \o Fmt3(ra) \o "_" \o Fmt3(dec)

\* An image_url that is the address of a picture, not a data URI.
UrlOf(site, obj_name) ==
    [prefix |-> "https://" \o site \o "/" \o obj_name, payload |-> B64Encode(EmptyBytes)]

\* A Hubble table that knows no object.
GetHubbleImagesNone(obj_name) == <<>>

\* _get_hubble_images(obj_name)
GetHubbleImages(obj_name) ==
    IF obj_name \in hubble_objects
    THEN << [category |-> "space_telescope", survey |-> "Hubble Space Telescope",
             image_url |-> UrlOf("hubblesite.org", obj_name), telescope |-> "HST"] >>
    ELSE <<>>

\* _get_jwst_images(obj_name)
GetJwstImages(obj_name) ==
    IF obj_name \in jwst_objects
    THEN << [category |-> "space_telescope", survey |-> "James Webb Space Telescope",
             image_url |-> UrlOf("webbtelescope.org", obj_name), telescope |-> "JWST"] >>
    ELSE <<>>

\* A loop that a failed fetch ends, what it had gathered lost.
RECURSIVE SurveyItemsLostOnFailure(_, _, _, _)
SurveyItemsLostOnFailure(n, net, ra, dec) ==
    IF n = 0 THEN <<>>
    ELSE LET image_data == FetchSurveyImage(net[surveys[n].survey], surveys[n].survey, ra, dec)
         IN  IF image_data # None
             THEN Append(SurveyItemsLostOnFailure(n - 1, net, ra, dec),
                         [category |-> surveys[n].category, survey |-> surveys[n].survey,
                          image_url |-> image_data, telescope |-> surveys[n].telescope])
             ELSE <<>>

\* Lines 54-72: gallery_images after the first n surveys of the table, net
\* giving the answer of the service for each survey.
RECURSIVE SurveyItems(_, _, _, _)
SurveyItems(n, net, ra, dec) ==
    IF n = 0 THEN <<>>
    ELSE LET image_data == FetchSurveyImage(net[surveys[n].survey], surveys[n].survey, ra, dec)
         IN  IF image_data # None
             THEN Append(SurveyItems(n - 1, net, ra, dec),
                         [category |-> surveys[n].category, survey |-> surveys[n].survey,
                          image_url |-> image_data, telescope |-> surveys[n].telescope])
             ELSE SurveyItems(n - 1, net, ra, dec)

\* A gallery that puts the Hubble pictures first.
GalleryImagesHubbleFirst(obj_name, net, ra, dec) ==
    GetHubbleImages(obj_name) \o SurveyItems(Len(surveys), net, ra, dec)
        \o GetJwstImages(obj_name)

\* Lines 51-80: the list a miss builds.
GalleryImages(obj_name, net, ra, dec) ==
    SurveyItems(Len(surveys), net, ra, dec) \o GetHubbleImages(obj_name)
        \o GetJwstImages(obj_name)

\* Lines 51-83: the list is built, stored under the key and returned, one
\* request sent for each survey of the table.
GalleryMiss(cache, key, built) ==
    [cache |-> (key :> built) @@ cache, images |-> built, hit |-> FALSE,
     sent |-> Len(surveys)]

\* A gallery that fetches again when the list it stored has no survey item.
GetGalleryRetryingFailures(cache, obj_name, net, ra, dec) ==
    LET key == GalleryKey(obj_name, ra, dec)
    IN  IF key \in DOMAIN cache
            /\ \E i \in 1..Len(cache[key]) : cache[key][i].category # "space_telescope"
        THEN [cache |-> cache, images |-> cache[key], hit |-> TRUE, sent |-> 0]
        ELSE GalleryMiss(cache, key, GalleryImages(obj_name, net, ra, dec))

\* get_multi_wavelength_gallery(obj_name, ra, dec), lines 46-83: the cache
\* afterwards, the list returned, and the requests sent, one for each survey
\* of the table on a miss.
GetGallery(cache, obj_name, net, ra, dec) ==
    LET key == GalleryKey(obj_name, ra, dec)
    IN  IF key \in DOMAIN cache
        THEN [cache |-> cache, images |-> cache[key], hit |-> TRUE, sent |-> 0]
        ELSE GalleryMiss(cache, key, GalleryImages(obj_name, net, ra, dec))

(***************************************************************************)
(* The lookup of lines 78-83: the memory tier, then the file.              *)
(***************************************************************************)
\* A lookup that asks the file system first.
TierDiskFirst(cache, dsk, key) ==
    IF CacheFile(key) \in DOMAIN dsk THEN "disk"
    ELSE IF key \in DOMAIN cache THEN "memory"
    ELSE "miss"

Tier(cache, dsk, key) ==
    IF key \in DOMAIN cache THEN "memory"
    ELSE IF CacheFile(key) \in DOMAIN dsk THEN "disk"
    ELSE "miss"

\* Lines 86-87: the bytes of the file as a data URI.
TileOfFile(bytes) == JpegUri(bytes)

\* Lines 100-101: the bytes that go to the file.
FileOfTile(tile) == B64Decode(Payload(tile))

\* A store that forgets the memory tier.
StoreTileSkipped(cache, key, tile) == cache

\* Lines 88 and 96: the tile goes into the memory tier under its key.
StoreTile(cache, key, tile) == (key :> tile) @@ cache

(***************************************************************************)
(* get_background_tiles: the grid of tiles around the centre of the view.  *)
(***************************************************************************)
Min(a, b) == IF a < b THEN a ELSE b
Max(a, b) == IF a > b THEN a ELSE b

RECURSIVE Pow2(_)
Pow2(n) == IF n = 0 THEN 1 ELSE 2 * Pow2(n - 1)

\* Line 38: view_range = 60 / (2 ** (zoom_level - 1)); a whole number of
\* millidegrees for the zoom levels of the model.
ViewRange(zoom_level) == 60000 \div Pow2(zoom_level - 1)

\* Line 39: tile_degree_size = view_range / 4
TileDegreeSize(zoom_level) == ViewRange(zoom_level) \div 4

\* A right ascension given to get_background_tiles is md millidegrees, and
\* for md = 0 it may be a float just below zero (eps = -1: -1e-17, say),
\* smaller than half the spacing of the floats next to 360.

\* Line 46: center_ra + i * tile_degree_size.  A float sum that is not zero
\* absorbs the tiny part; the sum with i = 0 is the centre itself.
RaOffset(center_ra, i, size) ==
    [md |-> center_ra.md + i * size, eps |-> IF i * size = 0 THEN center_ra.eps ELSE 0]

\* Line 50: tile_ra % 360 on floats.  Python computes fmod(x, 360) and, the
\* result being negative, adds 360 to it; for a result just below zero the
\* sum rounds to 360.0 itself.
PyMod360(x) ==
    IF x.md = 0 /\ x.eps < 0 THEN 360000 ELSE x.md % 360000

\* A declination used as it comes.
ClampDecNone(dec) == dec

\* Line 51: max(-90, min(90, tile_dec))
ClampDec(dec) == Max(-90000, Min(90000, dec))

\* One call of _get_or_create_tile from entry to return, no other call under
\* way and the disk working: the tiers afterwards, the value returned and the
\* requests sent.
GetOrCreateTile(cache, dsk, r, rs) ==
    LET key == CacheKey(r)
        tier == Tier(cache, dsk, key)
        tile == CreateSpaceTile(r, rs)
    IN  IF tier = "memory"
        THEN [cache |-> cache, disk |-> dsk, result |-> cache[key], sent |-> 0]
        ELSE IF tier = "disk"
        THEN [cache |-> StoreTile(cache, key, TileOfFile(dsk[CacheFile(key)])),
              disk |-> dsk, result |-> TileOfFile(dsk[CacheFile(key)]), sent |-> 0]
        ELSE [cache |-> StoreTile(cache, key, tile),
              disk |-> IF IsJpegUri(tile) THEN (CacheFile(key) :> FileOfTile(tile)) @@ dsk
                       ELSE dsk,
              result |-> tile, sent |-> 1]

(***************************************************************************)
(* The requests of the model.  10.001 and 10.004 format to the same two    *)
(* decimals and give different seeds.                                      *)
(***************************************************************************)
TileRequests ==
    { [survey |-> "optical", ra |-> 10001, dec |-> 1, size |-> 15000],
      [survey |-> "optical", ra |-> 10004, dec |-> 1, size |-> 15000],
      [survey |-> "radio", ra |-> 10001, dec |-> 1, size |-> 15000] }

NoRequest == [survey |-> "", ra |-> 0, dec |-> 0, size |-> 0]

NotSeen == [mem |-> FALSE, file |-> FALSE]

NothingStored == [mem |-> None, file |-> EmptyBytes]

\* The entry of a key in a tier, None or no bytes when there is none.
Entry(cache, key) == IF key \in DOMAIN cache THEN cache[key] ELSE None
FileEntry(dsk, file) == IF file \in DOMAIN dsk THEN dsk[file] ELSE EmptyBytes

(***************************************************************************)
(* backend: proxy_nasa_image (api/api_v1/endpoints/images.py)              *)
(***************************************************************************)
nasa_domains ==
    { "webbtelescope.org", "hubblesite.org", "photojournal.jpl.nasa.gov",
      "chandra.harvard.edu", "apod.nasa.gov", "images-api.nasa.gov", "science.nasa.gov",
      "stsci-opo.org", "static.uahirise.org", "uahirise.org", "lroc.sese.asu.edu",
      "spitzer.caltech.edu", "missionjuno.swri.edu" }

\* d in s, of two Python strings
Contains(s, d) ==
    \E i \in 1..(Len(s) - Len(d) + 1) : SubSeq(s, i, i + Len(d) - 1) = d

\* urlparse(url).netloc of "https://[userinfo@]host[:port]/path": the part
\* between the two slashes and the path, the user and the port with it.
Netloc(url) ==
    (IF url.userinfo = "" THEN "" ELSE url.userinfo \o "@") \o url.host
        \o (IF url.port = "" THEN "" ELSE ":" \o url.port)

\* Line 104: any(domain in parsed_url.netloc for domain in nasa_domains)
DomainAllowed(url) == \E domain \in nasa_domains : Contains(Netloc(url), domain)

\* What is raised inside the try block.
NoException == [type |-> "", status_code |-> 0]
HTTPException(status_code) == [type |-> "HTTPException", status_code |-> status_code]
TimeoutException == [type |-> "TimeoutException", status_code |-> 0]
ConnectError == [type |-> "ConnectError", status_code |-> 0]

\* Lines 138-143: the except clauses, in their order.  HTTPException is an
\* Exception and not an httpx.TimeoutException: the second clause takes it.
ProxyExcept(exc) ==
    IF exc.type = "TimeoutException" THEN HTTPException(504) ELSE HTTPException(500)

\* The URLs asked of the proxy.
ProxyUrls ==
    { [userinfo |-> "", host |-> "hubblesite.org", port |-> ""],
      [userinfo |-> "", host |-> "images.hubblesite.org", port |-> "443"],
      [userinfo |-> "", host |-> "apod.nasa.gov", port |-> ""],
      [userinfo |-> "", host |-> "evil.example", port |-> ""],
      [userinfo |-> "", host |-> "nasa.gov", port |-> ""],
      [userinfo |-> "", host |-> "hubblesite.org.evil.example", port |-> ""],
      [userinfo |-> "", host |-> "nothubblesite.org", port |-> ""],
      [userinfo |-> "hubblesite.org", host |-> "evil.example", port |-> ""] }

NoUrl == [userinfo |-> "", host |-> "", port |-> ""]

\* What client.get meets: a final response of some status, reached after the
\* redirects of via (follow_redirects=True), a timeout, or a failed
\* connection.
Upstreams ==
    { [kind |-> "response", status |-> st, via |-> <<>>] : st \in {200, 404, 503} }
        \cup { [kind |-> "response", status |-> 200, via |-> <<"cdn.example">>],
               [kind |-> "timeout", status |-> 0, via |-> <<>>],
               [kind |-> "error", status |-> 0, via |-> <<>>] }

NoUpstream == [kind |-> "", status |-> 0, via |-> <<>>]

\* proxy_nasa_image(url), one call: the hosts requests went out to, what
\* was raised inside the try block, and the status the client is answered.
ProxyNasaImage(url, up) ==
    LET raised == IF ~DomainAllowed(url) THEN HTTPException(400)
                  ELSE IF up.kind = "timeout" THEN TimeoutException
                  ELSE IF up.kind = "error" THEN ConnectError
                  ELSE IF up.status # 200 THEN HTTPException(up.status)
                  ELSE NoException
    IN  [out |-> IF DomainAllowed(url) THEN <<url.host>> \o up.via ELSE <<>>,
         raised |-> raised,
         status |-> IF raised = NoException THEN 200
                    ELSE ProxyExcept(raised).status_code]

(***************************************************************************)
(* backend: get_object_details (endpoints/objects.py) over the catalog of  *)
(* NASADataManager (nasa/data_manager.py)                                  *)
(***************************************************************************)
\* _create_sample_data(): the fields the search reads; constellation is ""
\* where the object has none, as obj.get("constellation", "") gives.
sample_data ==
    << [id |-> "sirius", name |-> "Sirius", type |-> "star", constellation |-> "Canis Major"],
       [id |-> "vega", name |-> "Vega", type |-> "star", constellation |-> "Lyra"],
       [id |-> "andromeda", name |-> "Andromeda Galaxy", type |-> "galaxy",
        constellation |-> "Andromeda"],
       [id |-> "orion_nebula", name |-> "Orion Nebula", type |-> "nebula",
        constellation |-> "Orion"],
       [id |-> "hubble", name |-> "Hubble Space Telescope", type |-> "satellite",
        constellation |-> ""],
       [id |-> "proxima_b", name |-> "Proxima Centauri b", type |-> "exoplanet",
        constellation |-> ""] >>

NoObject == [id |-> "", name |-> "", type |-> "", constellation |-> ""]

UpperCase == "ABCDEFGHIJKLMNOPQRSTUVWXYZ"
LowerCase == "abcdefghijklmnopqrstuvwxyz"

LowerChar(c) ==
    IF \E i \in 1..Len(UpperCase) : SubSeq(UpperCase, i, i) = c
    THEN LET i == CHOOSE i \in 1..Len(UpperCase) : SubSeq(UpperCase, i, i) = c
         IN  SubSeq(LowerCase, i, i)
    ELSE c

\* s.lower()
RECURSIVE Lower(_)
Lower(s) ==
    IF Len(s) = 0 THEN ""
    ELSE LowerChar(SubSeq(s, 1, 1)) \o Lower(SubSeq(s, 2, Len(s)))

\* Lines 87-89 of search_objects: the test of one object.
Matches(query_lower, obj) ==
    \/ Contains(Lower(obj.name), query_lower)
    \/ Contains(Lower(obj.type), query_lower)
    \/ Contains(Lower(obj.constellation), query_lower)

\* Lines 85-93: the loop from the n-th object on, results so far.
RECURSIVE SearchFrom(_, _, _, _)
SearchFrom(n, query_lower, limit, results) ==
    IF n > Len(sample_data) THEN results
    ELSE LET found == IF Matches(query_lower, sample_data[n])
                      THEN Append(results, sample_data[n])
                      ELSE results
         IN  IF Len(found) >= limit THEN found
             ELSE SearchFrom(n + 1, query_lower, limit, found)

\* search_objects(query, limit)
SearchObjects(query, limit) == SearchFrom(1, Lower(query), limit, <<>>)

\* get_object_details(object_id): the status and the object of the answer.
GetObjectDetails(object_id) ==
    LET results == SearchObjects(object_id, 1)
    IN  IF results = <<>> THEN [status |-> 404, body |-> NoObject]
        ELSE [status |-> 200, body |-> results[1]]

\* The ids asked for: those of the catalog and others.
ObjectIds ==
    { sample_data[n].id : n \in 1..Len(sample_data) } \cup {"pluto", "star", "Vega", "m31"}

NoReply == [status |-> 0, body |-> NoObject]

(***************************************************************************)
(* CelestialDataManager._add_coordinates (legacy/src/data_sources.py).     *)
(* SkyCoord(ra, dec) without a distance is a point of the unit sphere, and *)
(* its cartesian x, y, z are cos(dec)cos(ra), cos(dec)sin(ra), sin(dec).   *)
(* A real number is an integer number of 1e-8 here, computed in 32 bits;   *)
(* the sine and the cosine are summed from their series.                   *)
(***************************************************************************)
Limb == 10^4
One == Limb * Limb

\* The product of two fixed-point numbers, rounded.
MulFix(a, b) ==
    LET a1 == Abs(a) \div Limb
        a0 == Abs(a) % Limb
        b1 == Abs(b) \div Limb
        b0 == Abs(b) % Limb
        r == a1 * b1 + (a1 * b0 + a0 * b1 + (a0 * b0 + Limb \div 2) \div Limb + Limb \div 2)
                          \div Limb
    IN  IF (a < 0) = (b < 0) THEN r ELSE -r

\* u.deg to radians, for 0 <= md <= 45000 millidegrees: md * pi / 180000.
Radians(md) == md * 1745 + (md * 3293 + Limb \div 2) \div Limb

\* The series from the term t of the factors k and k + 1 downwards on, s the
\* sum so far, x2 the square of the angle.
RECURSIVE Series(_, _, _, _, _)
Series(t, s, x2, k, last) ==
    IF k > last THEN s
    ELSE LET d == k * (k + 1)
             u == -((MulFix(t, x2) + d \div 2) \div d)
         IN  Series(u, s + u, x2, k + 2, last)

\* sin and cos of an angle of 0 to 45 degrees.
SinSmall(md) ==
    LET x == Radians(md) IN Series(x, x, MulFix(x, x), 2, 10)
CosSmall(md) ==
    LET x == Radians(md) IN Series(One, One, MulFix(x, x), 1, 11)

\* sin of an angle of 0 to 90 degrees.
SinQuadrant(md) == IF md <= 45000 THEN SinSmall(md) ELSE CosSmall(90000 - md)

\* sin and cos of an angle in millidegrees.
SinDeg(md) ==
    LET m == md % 360000
    IN  IF m <= 90000 THEN SinQuadrant(m)
        ELSE IF m <= 180000 THEN SinQuadrant(180000 - m)
        ELSE IF m <= 270000 THEN -SinQuadrant(m - 180000)
        ELSE -SinQuadrant(360000 - m)
CosDeg(md) == SinDeg(md + 90000)

\* A point laid on a cylinder: the cosine of the declination left out.
CartesianOnCylinder(ra, dec) ==
    [x |-> CosDeg(ra), y |-> SinDeg(ra), z |-> SinDeg(dec)]

\* Lines 132-136: coords.cartesian of SkyCoord(ra=ra*u.deg, dec=dec*u.deg).
Cartesian(ra, dec) ==
    [x |-> MulFix(CosDeg(dec), CosDeg(ra)),
     y |-> MulFix(CosDeg(dec), SinDeg(ra)),
     z |-> SinDeg(dec)]

\* A cell of the columns ra and dec after pd.to_numeric(errors='coerce'): a
\* number of millidegrees, or NaN for a text that is no number.
Number(md) == [nan |-> FALSE, md |-> md]
NaN == [nan |-> TRUE, md |-> 0]

\* Line 129: df.dropna(subset=['ra', 'dec'])
DropNa(df) == SelectSeq(df, LAMBDA row : ~row.ra.nan /\ ~row.dec.nan)

\* _add_coordinates(df): the rows kept, each with its x, y, z; an empty
\* frame is returned as it is.
AddCoordinates(df) ==
    LET kept == DropNa(df)
    IN  [n \in 1..Len(kept) |->
            LET c == Cartesian(kept[n].ra.md, kept[n].dec.md)
            IN  [ra |-> kept[n].ra, dec |-> kept[n].dec, x |-> c.x, y |-> c.y, z |-> c.z]]

\* The rows of the model: right ascensions of [0, 360) and declinations of
\* [-90, 90], the ends and values of the fallback catalogues, and rows that
\* are dropped.
CatalogRas == {0, 45000, 88790, 180000, 279230, 310360, 359999}
CatalogDecs == {-90000, -30000, -8200, 0, 38780, 89260, 90000}
CatalogRows ==
    { [ra |-> Number(ra), dec |-> Number(dec)] : ra \in CatalogRas, dec \in CatalogDecs }
DroppedRows == { [ra |-> NaN, dec |-> Number(0)], [ra |-> Number(0), dec |-> NaN] }

(***************************************************************************)
(* GoogleMapsStyleVisualizer (legacy/src/google_maps_style.py) and the     *)
(* callback update_map (legacy/src/callbacks.py).  On the map an angle is  *)
(* a whole number of 1/64 degree, so that 60 / 2^(z - 1) is exact up to    *)
(* z = 7, as it is in binary floats; a zoom and a size multiplier are      *)
(* numbers of tenths (10 is 1.0).                                          *)
(***************************************************************************)
PerDegree == 2^6

\* self.zoom_levels, the levels 1 to 4
zoom_levels ==
    << [size_multiplier |-> 10, text_size |-> 12, detail_level |-> "basic"],
       [size_multiplier |-> 15, text_size |-> 14, detail_level |-> "medium"],
       [size_multiplier |-> 20, text_size |-> 16, detail_level |-> "detailed"],
       [size_multiplier |-> 30, text_size |-> 18, detail_level |-> "full"] >>

\* A table read round and round: level 5 is level 1 again.
ZoomConfigCycling(zoom_level) == zoom_levels[((zoom_level - 1) % 4) + 1]

\* zoom_config = self.zoom_levels[min(zoom_level, 4)]
ZoomConfig(zoom_level) == zoom_levels[Min(zoom_level, 4)]

\* Lines 425-426: view_range = 60 / 2 ** (zoom_level - 1)
MapViewRange(zoom_level) == (60 * PerDegree) \div Pow2(zoom_level - 1)

\* create_interactive_map(..., zoom_level, center_ra, center_dec, layers,
\* selected_object): what the figure shows.
CreateInteractiveMap(zoom_level, center_ra, center_dec, layers, selected_object) ==
    [zoom_level |-> zoom_level,
     view_range |-> MapViewRange(zoom_level),
     xaxis_range |-> <<center_ra - MapViewRange(zoom_level),
                       center_ra + MapViewRange(zoom_level)>>,
     yaxis_range |-> <<center_dec - MapViewRange(zoom_level) \div 2,
                       center_dec + MapViewRange(zoom_level) \div 2>>,
     size_multiplier |-> ZoomConfig(zoom_level).size_multiplier,
     text_size |-> ZoomConfig(zoom_level).text_size,
     layers |-> layers,
     selected_object |-> selected_object]

NoFigure ==
    [zoom_level |-> 0, view_range |-> 0, xaxis_range |-> <<0, 0>>, yaxis_range |-> <<0, 0>>,
     size_multiplier |-> 0, text_size |-> 0, layers |-> {}, selected_object |-> ""]

\* The zoom levels and the centres the visualizer is given directly.
MapZooms == 1..6
MapCenters ==
    { [ra |-> 0, dec |-> 0], [ra |-> 400 * PerDegree, dec |-> 89 * PerDegree],
      [ra |-> -30 * PerDegree, dec |-> -120 * PerDegree] }

\* selected_obj = None
NoSelection == ""

\* self.stars_df, the stars data_manager.search_objects looks through (the
\* fallback catalogue), in their order: ra and dec in millidegrees, and the
\* columns x and y that _add_coordinates gave them when the data were
\* loaded, cos(dec)cos(ra) and cos(dec)sin(ra), numbers of 1e-8.
stars_df ==
    << [name |-> "Betelgeuse", constellation |-> "Orion", ra |-> 88790, dec |-> 7410,
        x |-> 2094056, y |-> 99142754],
       [name |-> "Rigel", constellation |-> "Orion", ra |-> 78630, dec |-> -8200,
        x |-> 19512849, y |-> 97035141],
       [name |-> "Vega", constellation |-> "Lyra", ra |-> 279230, dec |-> 38780,
        x |-> 12503935, y |-> -76946327] >>

\* data_manager.search_objects(query): the stars whose name or constellation
\* holds the query, with their coords (star['x'], star['y']).  The stars
\* come first in the results.
DataManagerSearch(query) ==
    LET hit(star) == \/ Contains(Lower(star.name), Lower(query))
                     \/ Contains(Lower(star.constellation), Lower(query))
        found == SelectSeq(stars_df, hit)
    IN  [i \in 1..Len(found) |->
            [name |-> found[i].name, coords |-> [x |-> found[i].x, y |-> found[i].y]]]

\* coords[0] * 500 as an angle of the map, coords a number of 1e-8.
Times500(v) ==
    LET w == ((Abs(v) \div Limb) * 500 * PerDegree) \div Limb
    IN  IF v < 0 THEN -w ELSE w

\* The values of relayoutData, the last event of the figure: none yet, a pan
\* or a zoom of both axes, a zoom of the x axis alone, a double click
\* (autorange), a change of the drag mode.
NoRelayout == [keys |-> {}, x0 |-> 0, x1 |-> 0, y0 |-> 0, y1 |-> 0]
Relayouts ==
    { [keys |-> {"xaxis.range[0]", "xaxis.range[1]", "yaxis.range[0]", "yaxis.range[1]"},
       x0 |-> 10 * PerDegree, x1 |-> 130 * PerDegree,
       y0 |-> -10 * PerDegree, y1 |-> 50 * PerDegree],
      [keys |-> {"xaxis.range[0]", "xaxis.range[1]"},
       x0 |-> 10 * PerDegree, x1 |-> 130 * PerDegree, y0 |-> 0, y1 |-> 0],
      [keys |-> {"xaxis.autorange", "yaxis.autorange"}, x0 |-> 0, x1 |-> 0, y0 |-> 0, y1 |-> 0],
      [keys |-> {"dragmode"}, x0 |-> 0, x1 |-> 0, y0 |-> 0, y1 |-> 0] }

Toggles == {"toggle-satellites", "toggle-galaxies", "toggle-exoplanets"}
SearchQueries == {"vega", "orion", "zzz"}

\* The stores of the page as ui_components.py creates them.
InitialStores ==
    [zoom |-> 10, camera |-> [x |-> 0, y |-> 0], show_sats |-> FALSE, show_gals |-> TRUE,
     show_exos |-> FALSE, selected_obj |-> NoSelection]

\* Lines 57-86: the branch of the trigger.
AfterTrigger(trigger_id, search_query, st) ==
    IF trigger_id = "toggle-satellites" THEN [st EXCEPT !.show_sats = ~st.show_sats]
    ELSE IF trigger_id = "toggle-galaxies" THEN [st EXCEPT !.show_gals = ~st.show_gals]
    ELSE IF trigger_id = "toggle-exoplanets" THEN [st EXCEPT !.show_exos = ~st.show_exos]
    ELSE IF trigger_id = "search-btn" /\ search_query # ""
    THEN LET results == DataManagerSearch(search_query)
         IN  IF results # <<>>
             THEN [st EXCEPT !.selected_obj = results[1].name,
                             !.camera = [x |-> Times500(results[1].coords.x),
                                         y |-> Times500(results[1].coords.y)]]
             ELSE st
    ELSE IF trigger_id = "reset-view"
    THEN [st EXCEPT !.camera = [x |-> 0, y |-> 0], !.zoom = 10,
                    !.selected_obj = NoSelection]
    ELSE st

\* Lines 90-92 raise KeyError when a key of the four is not in relayout.
RelayoutRaises(relayout) ==
    /\ "xaxis.range[0]" \in relayout.keys
    /\ ~({"xaxis.range[1]", "yaxis.range[0]", "yaxis.range[1]"} \subseteq relayout.keys)

\* Lines 89-98: the pan or zoom of the map, then the autorange.
AfterRelayout(relayout, st) ==
    LET panned == IF "xaxis.range[0]" \in relayout.keys
                  THEN [st EXCEPT !.camera =
                            [x |-> ((relayout.x0 + relayout.x1) * 10) \div (2 * st.zoom),
                             y |-> ((relayout.y0 + relayout.y1) * 10) \div (2 * st.zoom)]]
                  ELSE st
    IN  IF "xaxis.autorange" \in relayout.keys
        THEN [panned EXCEPT !.camera = [x |-> 0, y |-> 0], !.zoom = 10]
        ELSE panned

\* Lines 101-107
Layers(st) ==
    {"stars"} \cup (IF st.show_gals THEN {"galaxies", "nebulae"} ELSE {})
        \cup (IF st.show_sats THEN {"satellites"} ELSE {})
        \cup (IF st.show_exos THEN {"exoplanets"} ELSE {})

\* update_map, lines 46-138, the stores st given as State: what it returns,
\* or that it raised.  The handler of lines 123-138 evaluates
\* `data_manager.stars_df or pd.DataFrame()`, the truth value of a DataFrame,
\* which raises ValueError: an exception in the try block leaves the
\* callback as an exception, and Dash updates no output.
UpdateMap(trigger_id, relayout, search_query, st) ==
    IF RelayoutRaises(relayout)
    THEN [raised |-> TRUE, stores |-> st, fig |-> NoFigure]
    ELSE LET new == AfterRelayout(relayout, AfterTrigger(trigger_id, search_query, st))
         IN  [raised |-> FALSE, stores |-> new,
              fig |-> CreateInteractiveMap(Min(new.zoom \div 10, 4), new.camera.x,
                                           new.camera.y, Layers(new), new.selected_obj)]

NoMapCall ==
    [trigger |-> "none", relayout |-> NoRelayout, raised |-> FALSE, before |-> InitialStores,
     fig |-> NoFigure]

\* The parts of the program a run can exercise; they share no state except
\* that the tile grid uses the tile cache.
Components == {"tiles", "images", "grid", "keys", "fetch", "gallery", "proxy", "objects", "coords",
               "zooms", "map"}

\* The gallery: the objects asked for, where they are, and the answers of
\* the service, one for each survey, the same through a run.
GalleryNames == {"Orion Nebula", "Andromeda Galaxy", "orion nebula"}
GalleryPoint == [ra |-> 838220, dec |-> -53910]
Up == [err |-> "none", status |-> 200, ctype |-> "image/jpeg", decodable |-> TRUE]
Down == [err |-> "timeout", status |-> 0, ctype |-> "", decodable |-> FALSE]
NoGalleryCall ==
    [name |-> "", ra |-> 0, dec |-> 0, key |-> "", hit |-> FALSE, sent |-> 0, again |-> FALSE]

\* Points asked for again: the second is the first to three decimals, the
\* third is not.
GalleryPoints ==
    { GalleryPoint, [ra |-> 838224, dec |-> -53912], [ra |-> 838220, dec |-> -53916] }

\* The answers of the service under which the points are asked for again:
\* every survey served, none served, one served.
RepeatNets ==
    { [sv \in SurveyNames |-> Up], [sv \in SurveyNames |-> Down],
      [sv \in SurveyNames |-> IF sv = "RASS" THEN Up ELSE Down] }

PointsUnder(net) == IF net \in RepeatNets THEN GalleryPoints ELSE {GalleryPoint}

\* The views asked of get_background_tiles, and the state of the service
\* while one view is served.
GridCenters ==
    { [ra |-> [md |-> 0, eps |-> -1], dec |-> 95000],
      [ra |-> [md |-> 0, eps |-> -1], dec |-> 100000],
      [ra |-> [md |-> 350000, eps |-> 0], dec |-> -80000] }
GridZooms == {1, 2}
GridResponses == { rs \in Responses : rs.err = "timeout" \/ (rs.status = 200 /\ rs.decodable) }
NoView == [ra |-> [md |-> 0, eps |-> 0], dec |-> 0, zoom |-> 1, survey |-> "", net |-> NoResponse]

\* The requests whose keys and procedural tiles are compared.
KeyRequests ==
    { [survey |-> sv, ra |-> ra, dec |-> dec, size |-> size] :
        sv \in {"optical", "radio"}, ra \in {10001, 10004, 10006},
        dec \in {-1, 1, 4}, size \in {15000, 7500} }

\* The calls of the image handler in the model.  A satellite keeps its name
\* while its coordinates move.
ObjectNames == {"Hubble Space Telescope"}
Telescopes == {"Hubble Space Telescope"}
ImageSurveys == {"optical", "infrared"}
SkyPoints == { [ra |-> 10685, dec |-> 41269], [ra |-> 83822, dec |-> -5391] }

NoImageCall ==
    [op |-> "", name |-> "", ra |-> 0, dec |-> 0, survey |-> "", size |-> 0, key |-> "",
     hit |-> FALSE, sent |-> 0, resp |-> NoResponse, result |-> None]

VARIABLES
    focus,          \* the part of the program this run exercises
    tile_cache,     \* self.tile_cache: key -> data URI
    disk,           \* the files of data/tiles: file name -> bytes
    calls,          \* calls started so far
    fetches,        \* key -> requests sent to SkyView for it by this process
    returned,       \* key -> the first image a call returned for it (history)
    puts,           \* key -> the tiles made and stored under it, in any process (history)
    pc,             \* per caller: where it is in _get_or_create_tile
    req,            \* per caller: (survey, ra, dec, size)
    cache_key,      \* per caller: the local cache_key
    cache_file,     \* per caller: the local cache_file
    resp,           \* per caller: what requests.get gave
    tile_data,      \* per caller: the local tile_data
    seen,           \* per caller: which tiers held the key at the lookup
    reads,          \* per caller: files read in this call
    sent,           \* per caller: requests sent in this call
    failed,         \* per caller: the write of the file raised
    prior,          \* per caller: the image returned for its key before it began
    stored,         \* per caller: what this call left in memory and in the file
    result,         \* per caller: the value returned
    image_cache,    \* self.image_cache: key -> data URI
    cached_for,     \* key -> the coordinates of the call that filled it (history)
    img,            \* the last call of the image handler, with what it returned
    g_pc,           \* get_background_tiles: "idle" or "loop"
    g_view,         \* its arguments, and the answer of the service meanwhile
    g_idx,          \* the tiles of the grid done so far, 0..25
    g_calls,        \* calls of get_background_tiles so far
    tiles,          \* the list it builds and returns
    g_log,          \* every (raw Dec, RA, size, survey, key) it looked up (history)
    k_pair,         \* two requests
    k_keys,         \* their cache keys
    k_tiles,        \* their procedural tiles
    f_req,          \* the request whose answer the three fetchers are given
    f_resp,         \* that answer
    f_tile,         \* what _create_space_tile makes of it
    f_body,         \* whether _fetch_skyview_image returns its body
    f_survey,       \* what _fetch_survey_image makes of it
    gallery_cache,  \* CelestialImageGallery.image_cache: key -> list of items
    gl_net,         \* survey -> the answer of the service for it
    gl_call,        \* the last call of get_multi_wavelength_gallery
    gallery_images, \* the list it returned
    gl_first,       \* (name, RA and Dec to 3 decimals) -> the list of the first call (history)
    px_url,         \* proxy_nasa_image: the URL of the last call
    px_up,          \* what the request of that call met
    px_out,         \* the hosts its requests went out to
    px_raised,      \* what was raised inside its try block
    px_status,      \* the status the client was answered
    ob_id,          \* get_object_details: the id of the last call
    ob_reply,       \* its answer
    co_df,          \* _add_coordinates: the frame given
    co_out,         \* the frame returned
    z_figs,         \* two figures create_interactive_map made
    stores,         \* zoom-level, camera-pos, show-*, selected-object (dcc.Store)
    relayoutData,   \* the property relayoutData of the figure sky-map
    m_calls,        \* calls of update_map so far
    m_last,         \* the last call of update_map: what fired it, the stores before
    m_prev          \* the call before it

tileVars == <<tile_cache, disk, calls, fetches, returned, puts, pc, req, cache_key, cache_file,
              resp, tile_data,
              seen, reads, sent, failed, prior, stored, result>>

imageVars == <<image_cache, cached_for, img>>

gridVars == <<g_pc, g_view, g_idx, g_calls, tiles, g_log>>

keyVars == <<k_pair, k_keys, k_tiles>>

fetchVars == <<f_req, f_resp, f_tile, f_body, f_survey>>

galleryVars == <<gallery_cache, gl_net, gl_call, gallery_images, gl_first>>

proxyVars == <<px_url, px_up, px_out, px_raised, px_status>>

objectVars == <<ob_id, ob_reply>>

coordVars == <<co_df, co_out>>

backendVars == <<proxyVars, objectVars, coordVars>>

zoomVars == <<z_figs>>

mapVars == <<stores, relayoutData, m_calls, m_last, m_prev>>

vars == <<focus, tileVars, imageVars, gridVars, keyVars, fetchVars, galleryVars, backendVars,
          zoomVars, mapVars>>

Count(f, k) == IF k \in DOMAIN f THEN f[k] ELSE 0

\* The tiles made and stored under a key so far.
Puts(key) == IF key \in DOMAIN puts THEN puts[key] ELSE {}

TileInit ==
    /\ tile_cache = <<>>
    /\ disk = <<>>
    /\ calls = 0
    /\ fetches = <<>>
    /\ returned = <<>>
    /\ puts = <<>>
    /\ pc = [p \in Callers |-> "idle"]
    /\ req = [p \in Callers |-> NoRequest]
    /\ cache_key = [p \in Callers |-> ""]
    /\ cache_file = [p \in Callers |-> ""]
    /\ resp = [p \in Callers |-> NoResponse]
    /\ tile_data = [p \in Callers |-> None]
    /\ seen = [p \in Callers |-> NotSeen]
    /\ reads = [p \in Callers |-> 0]
    /\ sent = [p \in Callers |-> 0]
    /\ failed = [p \in Callers |-> FALSE]
    /\ prior = [p \in Callers |-> None]
    /\ stored = [p \in Callers |-> NothingStored]
    /\ result = [p \in Callers |-> None]

ImageInit ==
    /\ image_cache = <<>>
    /\ cached_for = <<>>
    /\ img = NoImageCall

GridInit ==
    /\ g_pc = "idle"
    /\ g_view = NoView
    /\ g_idx = 0
    /\ g_calls = 0
    /\ tiles = <<>>
    /\ g_log = {}

KeyInit ==
    /\ k_pair = <<NoRequest, NoRequest>>
    /\ k_keys = <<CacheKey(NoRequest), CacheKey(NoRequest)>>
    /\ k_tiles = <<None, None>>

FetchInit ==
    /\ f_req = NoRequest
    /\ f_resp = NoResponse
    /\ f_tile = None
    /\ f_body = FALSE
    /\ f_survey = None

GalleryInit ==
    /\ gallery_cache = <<>>
    /\ gl_net \in IF focus = "gallery" THEN [SurveyNames -> {Up, Down}]
                  ELSE {[sv \in SurveyNames |-> Down]}
    /\ gl_call = NoGalleryCall
    /\ gallery_images = <<>>
    /\ gl_first = <<>>

ProxyInit ==
    /\ px_url = NoUrl
    /\ px_up = NoUpstream
    /\ px_out = <<>>
    /\ px_raised = NoException
    /\ px_status = 0

ObjectInit ==
    /\ ob_id = ""
    /\ ob_reply = NoReply

CoordInit ==
    /\ co_df = <<>>
    /\ co_out = <<>>

ZoomInit == z_figs = <<NoFigure, NoFigure>>

MapInit ==
    /\ stores = InitialStores
    /\ relayoutData = NoRelayout
    /\ m_calls = 0
    /\ m_last = NoMapCall
    /\ m_prev = NoMapCall

Init ==
    /\ focus \in Components
    /\ TileInit
    /\ ImageInit
    /\ GridInit
    /\ KeyInit
    /\ FetchInit
    /\ GalleryInit
    /\ ProxyInit
    /\ ObjectInit
    /\ CoordInit
    /\ ZoomInit
    /\ MapInit

\* A thread enters _get_or_create_tile(ra, dec, size, survey).
Call(p, r) ==
    /\ focus = "tiles"
    /\ pc[p] = "idle"
    /\ calls < MaxCalls
    /\ calls' = calls + 1
    /\ pc' = [pc EXCEPT ![p] = "lookup"]
    /\ req' = [req EXCEPT ![p] = r]
    /\ prior' = [prior EXCEPT ![p] = Entry(returned, CacheKey(r))]
    /\ UNCHANGED <<puts, cache_key, cache_file, tile_cache, disk, fetches, returned,
                   resp, tile_data, seen, reads, sent, failed, stored, result>>

\* Lines 75-83: the key, the memory tier, then cache_file.exists().
Lookup(p) ==
    /\ pc[p] = "lookup"
    /\ LET key == CacheKey(req[p])
           tier == Tier(tile_cache, disk, key)
       IN  /\ cache_key' = [cache_key EXCEPT ![p] = key]
           /\ cache_file' = [cache_file EXCEPT ![p] = CacheFile(key)]
           /\ seen' = [seen EXCEPT ![p] = [mem |-> key \in DOMAIN tile_cache,
                                           file |-> CacheFile(key) \in DOMAIN disk]]
           /\ IF tier = "memory"
              THEN /\ result' = [result EXCEPT ![p] = tile_cache[key]]
                   /\ pc' = [pc EXCEPT ![p] = "done"]
              ELSE /\ pc' = [pc EXCEPT ![p] = IF tier = "disk" THEN "read" ELSE "fetch"]
                   /\ UNCHANGED result
    /\ UNCHANGED <<puts, prior, stored, tile_cache, disk, calls, fetches, returned, req,
                   resp, tile_data, reads, sent, failed>>

\* Lines 84-89: the file is read, wrapped as a data URI, put into the memory
\* tier and returned.
ReadFile(p) ==
    /\ pc[p] = "read"
    /\ LET key == cache_key[p]
           tile == TileOfFile(disk[cache_file[p]])
       IN  /\ tile_cache' = StoreTile(tile_cache, key, tile)
           /\ tile_data' = [tile_data EXCEPT ![p] = tile]
           /\ result' = [result EXCEPT ![p] = tile]
           /\ stored' = [stored EXCEPT ![p].mem = Entry(tile_cache', key)]
    /\ reads' = [reads EXCEPT ![p] = @ + 1]
    /\ pc' = [pc EXCEPT ![p] = "done"]
    /\ UNCHANGED <<puts, cache_key, cache_file, prior, disk, calls, fetches, returned,
                   req, resp, seen, sent, failed>>

\* Lines 84-85 raising (the file cannot be opened or read): the handler of
\* lines 109-111 returns None.
ReadFileFails(p) ==
    /\ pc[p] = "read"
    /\ result' = [result EXCEPT ![p] = None]
    /\ pc' = [pc EXCEPT ![p] = "done"]
    /\ UNCHANGED <<puts, cache_key, cache_file, prior, stored, tile_cache, disk, calls,
                   fetches, returned, req, resp, tile_data, seen, reads, sent, failed>>

\* A request that is sent again when it has been sent.
SendRequestTwice(p) ==
    /\ pc[p] = "fetch"
    /\ fetches' = (cache_key[p] :> (Count(fetches, cache_key[p]) + 2)) @@ fetches
    /\ sent' = [sent EXCEPT ![p] = @ + 2]
    /\ pc' = [pc EXCEPT ![p] = "await"]
    /\ UNCHANGED <<puts, cache_key, cache_file, prior, stored, tile_cache, disk, calls,
                   returned, req, resp, tile_data, seen, reads, failed, result>>

\* Line 131: requests.get is sent; the thread waits for the answer.
SendRequest(p) ==
    /\ pc[p] = "fetch"
    /\ LET key == cache_key[p]
       IN  fetches' = (key :> (Count(fetches, key) + 1)) @@ fetches
    /\ sent' = [sent EXCEPT ![p] = @ + 1]
    /\ pc' = [pc EXCEPT ![p] = "await"]
    /\ UNCHANGED <<puts, cache_key, cache_file, prior, stored, tile_cache, disk, calls,
                   returned, req, resp, tile_data, seen, reads, failed, result>>

\* Lines 131-152 and 94-101: the answer arrives, _create_space_tile makes the
\* tile, the tile goes into the memory tier; a JPEG goes on to the file.
ReceiveResponse(p, rs) ==
    /\ pc[p] = "await"
    /\ LET key == cache_key[p]
           tile == CreateSpaceTile(req[p], rs)
       IN  /\ resp' = [resp EXCEPT ![p] = rs]
           /\ tile_data' = [tile_data EXCEPT ![p] = tile]
           /\ tile_cache' = StoreTile(tile_cache, key, tile)
           /\ puts' = (key :> (Puts(key) \cup {tile})) @@ puts
           /\ stored' = [stored EXCEPT ![p].mem = Entry(tile_cache', key)]
           /\ IF IsJpegUri(tile)
              THEN /\ pc' = [pc EXCEPT ![p] = "open"]
                   /\ UNCHANGED result
              ELSE /\ pc' = [pc EXCEPT ![p] = "done"]
                   /\ result' = [result EXCEPT ![p] = tile]
    /\ UNCHANGED <<cache_key, cache_file, prior, disk, calls, fetches, returned, req,
                   seen, reads, sent, failed>>

\* Line 102: open(cache_file, 'wb') creates or truncates the file.
OpenFile(p) ==
    /\ pc[p] = "open"
    /\ disk' = (cache_file[p] :> EmptyBytes) @@ disk
    /\ pc' = [pc EXCEPT ![p] = "write"]
    /\ UNCHANGED <<puts, cache_key, cache_file, prior, stored, tile_cache, calls,
                   fetches, returned, req, resp, tile_data, seen, reads, sent, failed,
                   result>>

\* A failure of open() that reaches the caller: the call ends with None.
OpenFileFailsSurfaced(p) ==
    /\ pc[p] = "open"
    /\ failed' = [failed EXCEPT ![p] = TRUE]
    /\ result' = [result EXCEPT ![p] = None]
    /\ pc' = [pc EXCEPT ![p] = "done"]
    /\ UNCHANGED <<puts, cache_key, cache_file, prior, stored, tile_cache, disk, calls,
                   fetches, returned, req, resp, tile_data, seen, reads, sent>>

\* Line 102 raising: lines 104-105 log it, line 107 returns the tile.
OpenFileFails(p) ==
    /\ pc[p] = "open"
    /\ failed' = [failed EXCEPT ![p] = TRUE]
    /\ result' = [result EXCEPT ![p] = tile_data[p]]
    /\ pc' = [pc EXCEPT ![p] = "done"]
    /\ UNCHANGED <<puts, cache_key, cache_file, prior, stored, tile_cache, disk, calls,
                   fetches, returned, req, resp, tile_data, seen, reads, sent>>

\* Line 103 and the end of the with block: the decoded bytes reach the file.
WriteFile(p) ==
    /\ pc[p] = "write"
    /\ disk' = (cache_file[p] :> FileOfTile(tile_data[p])) @@ disk
    /\ stored' = [stored EXCEPT ![p].file = FileEntry(disk', cache_file[p])]
    /\ result' = [result EXCEPT ![p] = tile_data[p]]
    /\ pc' = [pc EXCEPT ![p] = "done"]
    /\ UNCHANGED <<puts, cache_key, cache_file, prior, tile_cache, calls, fetches,
                   returned, req, resp, tile_data, seen, reads, sent, failed>>

\* Line 103 raising (disk full): the file stays as open() left it.
WriteFileFails(p) ==
    /\ pc[p] = "write"
    /\ failed' = [failed EXCEPT ![p] = TRUE]
    /\ result' = [result EXCEPT ![p] = tile_data[p]]
    /\ pc' = [pc EXCEPT ![p] = "done"]
    /\ UNCHANGED <<puts, cache_key, cache_file, prior, stored, tile_cache, disk, calls,
                   fetches, returned, req, resp, tile_data, seen, reads, sent>>

\* The caller takes the result; the thread is free for the next call.
Return(p) ==
    /\ pc[p] = "done"
    /\ returned' = IF result[p] # None /\ cache_key[p] \notin DOMAIN returned
                   THEN (cache_key[p] :> result[p]) @@ returned
                   ELSE returned
    /\ cache_key' = [cache_key EXCEPT ![p] = ""]
    /\ cache_file' = [cache_file EXCEPT ![p] = ""]
    /\ pc' = [pc EXCEPT ![p] = "idle"]
    /\ req' = [req EXCEPT ![p] = NoRequest]
    /\ resp' = [resp EXCEPT ![p] = NoResponse]
    /\ tile_data' = [tile_data EXCEPT ![p] = None]
    /\ seen' = [seen EXCEPT ![p] = NotSeen]
    /\ reads' = [reads EXCEPT ![p] = 0]
    /\ sent' = [sent EXCEPT ![p] = 0]
    /\ failed' = [failed EXCEPT ![p] = FALSE]
    /\ prior' = [prior EXCEPT ![p] = None]
    /\ stored' = [stored EXCEPT ![p] = NothingStored]
    /\ result' = [result EXCEPT ![p] = None]
    /\ UNCHANGED <<puts, tile_cache, disk, calls, fetches>>

\* The process ends and a new one starts: the memory tier is empty again, the
\* files stay.
Restart ==
    /\ focus = "tiles"
    /\ \A p \in Callers : pc[p] = "idle"
    /\ tile_cache # <<>>
    /\ tile_cache' = <<>>
    /\ fetches' = <<>>
    /\ returned' = <<>>
    /\ UNCHANGED <<puts, cache_key, cache_file, prior, stored, disk, calls, pc, req,
                   resp, tile_data, seen, reads, sent, failed, result>>

Step(p) ==
    \/ \E r \in TileRequests : Call(p, r)
    \/ Lookup(p)
    \/ ReadFile(p)
    \/ ReadFileFails(p)
    \/ SendRequest(p)
    \/ \E rs \in TileResponses : ReceiveResponse(p, rs)
    \/ OpenFile(p)
    \/ OpenFileFails(p)
    \/ WriteFile(p)
    \/ WriteFileFails(p)
    \/ Return(p)

TileNext ==
    /\ focus = "tiles"
    /\ (\E p \in Callers : Step(p)) \/ Restart
    /\ UNCHANGED <<focus, imageVars, gridVars, keyVars, fetchVars, galleryVars, backendVars,
                   zoomVars, mapVars>>

\* get_object_image(obj_name, ra, dec, survey, size), one call from entry to
\* return, with the response rs if it sends a request.
GetObjectImageAs(op, obj_name, ra, dec, survey, size, rs) ==
    LET key == ImageKey(obj_name, survey, size)
        call == [op |-> op, name |-> obj_name, ra |-> ra, dec |-> dec, survey |-> survey,
                 size |-> size, key |-> key, hit |-> FALSE, sent |-> 0,
                 resp |-> NoResponse, result |-> None]
    IN  /\ focus = "images"
        /\ IF key \in DOMAIN image_cache
           THEN /\ img' = [call EXCEPT !.hit = TRUE, !.result = image_cache[key]]
                /\ UNCHANGED <<image_cache, cached_for>>
           ELSE LET image == ObjectImage(rs, obj_name, ra, dec, survey, size)
                IN  /\ image_cache' = (key :> image) @@ image_cache
                    /\ cached_for' = (key :> <<ra, dec>>) @@ cached_for
                    /\ img' = [call EXCEPT !.sent = 1, !.resp = rs, !.result = image]

GetObjectImage(obj_name, c, survey, rs) ==
    GetObjectImageAs("get_object_image", obj_name, c.ra, c.dec, survey, 500, rs)

\* get_telescope_view(telescope_name, target_ra, target_dec)
GetTelescopeView(telescope, c, rs) ==
    GetObjectImageAs("get_telescope_view", telescope \o "_view", c.ra, c.dec,
                     TelescopeSurvey(telescope), 300, rs)

ImageNext ==
    /\ focus = "images"
    /\ \/ \E n \in ObjectNames, c \in SkyPoints, sv \in ImageSurveys, rs \in Responses :
             GetObjectImage(n, c, sv, rs)
       \/ \E t \in Telescopes, c \in SkyPoints, rs \in Responses :
             GetTelescopeView(t, c, rs)
    /\ UNCHANGED <<focus, tileVars, gridVars, keyVars, fetchVars, galleryVars, backendVars,
                   zoomVars, mapVars>>

tileLocals == <<calls, returned, pc, req, cache_key, cache_file, resp, tile_data, seen,
                reads, sent, failed, prior, stored, result>>

\* get_background_tiles(center_ra, center_dec, zoom_level, survey) begins.
GridCall(c, zoom, net) ==
    /\ focus = "grid"
    /\ g_pc = "idle"
    /\ g_calls < MaxGridCalls
    /\ g_calls' = g_calls + 1
    /\ g_view' = [ra |-> c.ra, dec |-> c.dec, zoom |-> zoom, survey |-> "optical", net |-> net]
    /\ g_idx' = 0
    /\ tiles' = <<>>
    /\ g_pc' = "loop"
    /\ UNCHANGED <<g_log, tile_cache, disk, fetches, puts, tileLocals>>

\* Lines 44-63: one turn of the loops, i the outer and j the inner.
GridTile ==
    /\ g_pc = "loop"
    /\ g_idx < GridSide * GridSide
    /\ LET i == (g_idx \div GridSide) - GridReach
           j == (g_idx % GridSide) - GridReach
           size == TileDegreeSize(g_view.zoom)
           tile_ra == PyMod360(RaOffset(g_view.ra, i, size))
           raw_dec == g_view.dec + j * size
           tile_dec == ClampDec(raw_dec)
           r == [survey |-> g_view.survey, ra |-> tile_ra, dec |-> tile_dec, size |-> size]
           got == GetOrCreateTile(tile_cache, disk, r, g_view.net)
       IN  /\ tile_cache' = got.cache
           /\ disk' = got.disk
           /\ fetches' = IF got.sent > 0
                         THEN (CacheKey(r) :> (Count(fetches, CacheKey(r)) + got.sent)) @@ fetches
                         ELSE fetches
           /\ puts' = IF got.sent > 0
                      THEN (CacheKey(r) :> (Puts(CacheKey(r)) \cup {got.result})) @@ puts
                      ELSE puts
           /\ tiles' = IF got.result # None /\ got.result # EmptyString
                       THEN Append(tiles, [ra |-> tile_ra, dec |-> tile_dec, size |-> size,
                                           image_data |-> got.result,
                                           x_offset |-> i, y_offset |-> j])
                       ELSE tiles
           /\ g_log' = g_log \cup {[raw_dec |-> raw_dec, ra |-> tile_ra, size |-> size,
                                     survey |-> g_view.survey, key |-> CacheKey(r)]}
    /\ g_idx' = g_idx + 1
    /\ UNCHANGED <<g_pc, g_view, g_calls, tileLocals>>

\* Line 65: return tiles.
GridReturn ==
    /\ g_pc = "loop"
    /\ g_idx = GridSide * GridSide
    /\ g_pc' = "idle"
    /\ UNCHANGED <<g_view, g_idx, g_calls, tiles, g_log, tile_cache, disk, fetches, puts,
                   tileLocals>>

GridNext ==
    /\ focus = "grid"
    /\ \/ \E c \in GridCenters, z \in GridZooms, net \in GridResponses : GridCall(c, z, net)
       \/ GridTile
       \/ GridReturn
    /\ UNCHANGED <<focus, imageVars, keyVars, fetchVars, galleryVars, backendVars,
                   zoomVars, mapVars>>

\* The keys and the procedural tiles of two requests, computed once in a run.
ComparePair(a, b) ==
    /\ focus = "keys"
    /\ k_pair = <<NoRequest, NoRequest>>
    /\ k_pair' = <<a, b>>
    /\ k_keys' = <<CacheKey(a), CacheKey(b)>>
    /\ k_tiles' = <<CreateProceduralSpaceTile(a.ra, a.dec, a.size),
                    CreateProceduralSpaceTile(b.ra, b.dec, b.size)>>

KeyNext ==
    /\ focus = "keys"
    /\ k_pair = <<NoRequest, NoRequest>>
    /\ \E a, b \in KeyRequests : ComparePair(a, b)
    /\ UNCHANGED <<focus, tileVars, imageVars, gridVars, fetchVars, galleryVars, backendVars,
                   zoomVars, mapVars>>

\* One answer of the service given to each of the three fetchers.
Fetch(r, rs) ==
    /\ focus = "fetch"
    /\ f_req' = r
    /\ f_resp' = rs
    /\ f_tile' = CreateSpaceTile(r, rs)
    /\ f_body' = FetchGivesImage(rs)
    /\ f_survey' = FetchSurveyImage(rs, SurveyName(r.survey), r.ra, r.dec)

FetchNext ==
    /\ focus = "fetch"
    /\ \E r \in TileRequests, rs \in Responses : Fetch(r, rs)
    /\ UNCHANGED <<focus, tileVars, imageVars, gridVars, keyVars, galleryVars, backendVars,
                   zoomVars, mapVars>>

\* get_multi_wavelength_gallery(obj_name, ra, dec), one call from entry to
\* return.
GetMultiWavelengthGallery(obj_name, c) ==
    \E got \in {GetGallery(gallery_cache, obj_name, gl_net, c.ra, c.dec)},
       asked \in {<<obj_name, Fmt3(c.ra), Fmt3(c.dec)>>} :
        /\ focus = "gallery"
        /\ gl_call' = [name |-> obj_name, ra |-> c.ra, dec |-> c.dec,
                       key |-> GalleryKey(obj_name, c.ra, c.dec), hit |-> got.hit,
                       sent |-> got.sent, again |-> asked \in DOMAIN gl_first]
        /\ gallery_cache' = got.cache
        /\ gallery_images' = got.images
        /\ gl_first' = IF asked \in DOMAIN gl_first THEN gl_first
                       ELSE (asked :> got.images) @@ gl_first
        /\ UNCHANGED gl_net

GalleryNext ==
    /\ focus = "gallery"
    /\ \E n \in GalleryNames, c \in PointsUnder(gl_net) : GetMultiWavelengthGallery(n, c)
    /\ UNCHANGED <<focus, tileVars, imageVars, gridVars, keyVars, fetchVars, backendVars,
                   zoomVars, mapVars>>

\* One call of proxy_nasa_image, from the request of the client to its answer.
Proxy(url, up) ==
    /\ focus = "proxy"
    /\ LET call == ProxyNasaImage(url, up)
       IN  /\ px_url' = url
           /\ px_up' = IF DomainAllowed(url) THEN up ELSE NoUpstream
           /\ px_out' = call.out
           /\ px_raised' = call.raised
           /\ px_status' = call.status

ProxyNext ==
    /\ focus = "proxy"
    /\ \E url \in ProxyUrls, up \in Upstreams : Proxy(url, up)
    /\ UNCHANGED <<focus, tileVars, imageVars, gridVars, keyVars, fetchVars, galleryVars,
                   objectVars, coordVars, zoomVars, mapVars>>

\* One call of get_object_details.
ObjectDetails(object_id) ==
    /\ focus = "objects"
    /\ ob_id' = object_id
    /\ ob_reply' = GetObjectDetails(object_id)

ObjectNext ==
    /\ focus = "objects"
    /\ \E object_id \in ObjectIds : ObjectDetails(object_id)
    /\ UNCHANGED <<focus, tileVars, imageVars, gridVars, keyVars, fetchVars, galleryVars,
                   proxyVars, coordVars, zoomVars, mapVars>>

\* _add_coordinates on a frame of one row, or of two rows of which one has
\* no number, called once in a run.
AddCoordinatesCall(df) ==
    /\ focus = "coords"
    /\ co_df = <<>>
    /\ co_df' = df
    /\ co_out' = AddCoordinates(df)

CoordNext ==
    /\ focus = "coords"
    /\ co_df = <<>>
    /\ \/ \E a \in CatalogRows \cup DroppedRows : AddCoordinatesCall(<<a>>)
       \/ \E a \in DroppedRows, b \in CatalogRows :
             AddCoordinatesCall(<<a, b>>) \/ AddCoordinatesCall(<<b, a>>)
    /\ UNCHANGED <<focus, tileVars, imageVars, gridVars, keyVars, fetchVars, galleryVars,
                   proxyVars, objectVars, zoomVars, mapVars>>

\* create_interactive_map called for two zoom levels, once in a run.
CompareZooms(z1, z2, c) ==
    /\ focus = "zooms"
    /\ z_figs = <<NoFigure, NoFigure>>
    /\ z_figs' = <<CreateInteractiveMap(z1, c.ra, c.dec, {"stars"}, NoSelection),
                   CreateInteractiveMap(z2, c.ra, c.dec, {"stars"}, NoSelection)>>

ZoomNext ==
    /\ focus = "zooms"
    /\ z_figs = <<NoFigure, NoFigure>>
    /\ \E z1, z2 \in MapZooms, c \in MapCenters : CompareZooms(z1, z2, c)
    /\ UNCHANGED <<focus, tileVars, imageVars, gridVars, keyVars, fetchVars, galleryVars,
                   backendVars, mapVars>>

\* One event of the page and the call of update_map it fires.  An event of
\* the figure brings its relayoutData; every other event finds the
\* relayoutData of the last event of the figure.
MapEvent(trigger_id, relayout, search_query) ==
    /\ focus = "map"
    /\ m_calls < MaxMapCalls
    /\ m_calls' = m_calls + 1
    /\ relayoutData' = relayout
    /\ \E out \in {UpdateMap(trigger_id, relayout, search_query, stores)} :
        /\ stores' = IF out.raised THEN stores ELSE out.stores
        /\ m_last' = [trigger |-> trigger_id, relayout |-> relayout, raised |-> out.raised,
                      before |-> stores, fig |-> out.fig]
    /\ m_prev' = m_last

MapNext ==
    /\ focus = "map"
    /\ \/ \E relayout \in Relayouts : MapEvent("sky-map", relayout, "")
       \/ \E trigger_id \in Toggles \cup {"reset-view"} :
             MapEvent(trigger_id, relayoutData, "")
       \/ \E search_query \in SearchQueries : MapEvent("search-btn", relayoutData, search_query)
    /\ UNCHANGED <<focus, tileVars, imageVars, gridVars, keyVars, fetchVars, galleryVars,
                   backendVars, zoomVars>>

Next ==
    \/ TileNext \/ ImageNext \/ GridNext \/ KeyNext \/ FetchNext \/ GalleryNext
    \/ ProxyNext \/ ObjectNext \/ CoordNext \/ ZoomNext \/ MapNext

Spec == Init /\ [][Next]_vars

(***************************************************************************)
(* Properties of SpaceBackgroundTiles._get_or_create_tile.                 *)
(***************************************************************************)
Prov(uri) == B64Decode(Payload(uri)).prov

KeyOf(p) == cache_key[p]

\* C1: two calls under way at the same time with the same survey, RA, Dec
\* and size, for a key that neither tier held when they looked, send one
\* request to SkyView between them, not one each.
C1_OneRequestForConcurrentCalls ==
    \A p, q \in Callers :
        p # q /\ req[p] # NoRequest /\ req[p] = req[q] => sent[p] + sent[q] <= 1

\* C3: once a call has returned an image for a key, every call that begins
\* later with arguments that give the same key returns that same image and
\* sends no request, whatever other requests are served in between.
C3_LaterCallServedSameImage ==
    \A p \in Callers :
        pc[p] = "done" /\ prior[p] # None => result[p] = prior[p] /\ sent[p] = 0

\* C9: the memory tier is looked up first, then the file, and a request is
\* sent only when both miss: a call that found the key in memory reads no
\* file and sends no request; a call that found only the file sends no
\* request and, having read it, leaves the entry in the memory tier, where
\* the next lookup finds it.
C9_LookupOrder ==
    \A p \in Callers :
        /\ seen[p].mem => reads[p] = 0 /\ sent[p] = 0
        /\ reads[p] > 0 => ~seen[p].mem /\ seen[p].file
        /\ sent[p] > 0 => ~seen[p].mem /\ ~seen[p].file
        /\ ~seen[p].mem /\ seen[p].file => sent[p] = 0
        /\ pc[p] = "done" /\ ~seen[p].mem /\ seen[p].file /\ result[p] # None
            => /\ reads[p] = 1
               /\ Tier(tile_cache, disk, KeyOf(p)) = "memory"

\* A call has been served from the file and has put the entry into memory.
C9_Witness ==
    \E p \in Callers :
        /\ pc[p] = "done" /\ ~seen[p].mem /\ seen[p].file
        /\ result[p] # None /\ reads[p] = 1
        /\ KeyOf(p) \in DOMAIN tile_cache

\* C2: a tile request or an object-image request whose fetch timed out
\* returns a procedurally generated image, never None and never an error.
C2_TimeoutGivesProceduralImage ==
    /\ \A p \in Callers :
        pc[p] = "done" /\ resp[p].err = "timeout"
            => result[p] # None /\ Prov(result[p]) = "procedural"
    /\ img.resp.err = "timeout" => img.result # None /\ Prov(img.result) = "procedural"

\* C5: the image handler never returns, for one coordinate, the image it
\* cached for another coordinate.
C5_NoEntrySharedAcrossCoordinates ==
    img.op # "" /\ img.hit => cached_for[img.key] = <<img.ra, img.dec>>

Hundredths(v) == IF v < 0 THEN -((5 - v) \div 10) ELSE (v + 5) \div 10

\* Two values agree to two decimals, a value below zero that rounds to zero
\* (written "-0.00") apart from one that is not below zero ("0.00").
SameTwoDecimals(a, b) ==
    /\ Hundredths(a) = Hundredths(b)
    /\ Hundredths(a) = 0 => ((a < 0) <=> (b < 0))

Compared == k_pair[1] # NoRequest

\* C4 as stated: two requests have the same cache key if and only if their
\* surveys are equal and their RA, Dec and size are equal after rounding to
\* three decimals (thousandths of a degree, the unit of the model).
C4_SameEntryIffEqualAtThreeDecimals ==
    Compared =>
        (k_keys[1] = k_keys[2]
            <=> /\ k_pair[1].survey = k_pair[2].survey
                /\ k_pair[1].ra = k_pair[2].ra
                /\ k_pair[1].dec = k_pair[2].dec
                /\ k_pair[1].size = k_pair[2].size)

\* C4 as amended: two requests have the same cache key if and only if their
\* surveys are equal and their RA, Dec and size are equal after rounding to
\* two decimals, a negative value that rounds to zero (-0.00) counting as
\* different from 0.00.
C4_SameEntryIffEqualAtTwoDecimals ==
    Compared =>
        (k_keys[1] = k_keys[2]
            <=> /\ k_pair[1].survey = k_pair[2].survey
                /\ SameTwoDecimals(k_pair[1].ra, k_pair[2].ra)
                /\ SameTwoDecimals(k_pair[1].dec, k_pair[2].dec)
                /\ SameTwoDecimals(k_pair[1].size, k_pair[2].size))

\* Two requests whose RA differ in the third decimal have one key.
C4_Witness ==
    /\ Compared
    /\ k_pair[1].ra # k_pair[2].ra
    /\ k_keys[1] = k_keys[2]

\* C6: two calls of _create_procedural_space_tile whose coordinates give the
\* same cache key use the same seed and make the same image, whatever the
\* size.
C6_SameKeySameProceduralTile ==
    Compared /\ k_pair[1].survey = k_pair[2].survey
             /\ Fmt2(k_pair[1].ra) = Fmt2(k_pair[2].ra)
             /\ Fmt2(k_pair[1].dec) = Fmt2(k_pair[2].dec)
        => /\ Seed(k_pair[1].ra, k_pair[1].dec) = Seed(k_pair[2].ra, k_pair[2].dec)
           /\ k_tiles[1] = k_tiles[2]

(***************************************************************************)
(* Properties of get_background_tiles.                                     *)
(***************************************************************************)
OutOfRange(dec) == dec > 90000 \/ dec < -90000

\* C7: a declination above 90 (below -90) is clamped to 90 (-90) before the
\* key is made: the key of a tile whose declination is out of range is the
\* key of the limit on its side, whatever the declination, so that two tiles
\* that differ only in a declination out of range on one side share that
\* key and its one entry of the cache, made by one request.
C7_ClampedDecSharesEntry ==
    \A a \in g_log :
        OutOfRange(a.raw_dec)
            => /\ a.key = CacheKey([survey |-> a.survey, ra |-> a.ra, size |-> a.size,
                                    dec |-> IF a.raw_dec > 0 THEN 90000 ELSE -90000])
               /\ a.key \in DOMAIN tile_cache
               /\ Count(fetches, a.key) = 1

\* Two tiles of different declinations above 90 have been looked up under
\* one key.
C7_Witness ==
    \E a, b \in g_log :
        /\ a.ra = b.ra /\ a.size = b.size /\ a.survey = b.survey
        /\ a.raw_dec > 90000 /\ b.raw_dec > 90000 /\ a.raw_dec # b.raw_dec
        /\ a.key = b.key
        /\ a.key \in DOMAIN tile_cache

\* C8: every tile get_background_tiles returns, and every coordinate it
\* passes to the cache and to the fetch, has RA in [0, 360) and Dec in
\* [-90, 90].
C8_TileCoordinatesInRange ==
    /\ \A n \in 1..Len(tiles) :
        /\ 0 <= tiles[n].ra /\ tiles[n].ra < 360000
        /\ -90000 <= tiles[n].dec /\ tiles[n].dec <= 90000
    /\ \A a \in g_log : 0 <= a.ra /\ a.ra < 360000

(***************************************************************************)
(* Failures of the disk and of the service.                                *)
(***************************************************************************)
\* C11: when the write of the file of a new tile fails (open or write
\* raising), the call still returns the tile it made, not None, and the
\* tile has been put into the memory tier under its key.
C11_WriteFailureKeepsTile ==
    \A p \in Callers :
        pc[p] = "done" /\ failed[p]
            => /\ result[p] # None
               /\ result[p] = tile_data[p]
               /\ stored[p].mem = result[p]
               /\ KeyOf(p) \in DOMAIN tile_cache

\* A call whose write failed has ended with its tile.
C11_Witness ==
    \E p \in Callers :
        /\ pc[p] = "done" /\ failed[p] /\ sent[p] = 1
        /\ IsJpegUri(result[p])
        /\ stored[p].mem = result[p]

\* C15: a call that missed both tiers, and a call of get_object_image that
\* missed image_cache, has sent exactly one request when it ends, whatever
\* the answer; no call sends more than one.
C15_OneRequestPerMiss ==
    /\ \A p \in Callers :
        /\ sent[p] <= 1
        /\ pc[p] = "done" /\ ~seen[p].mem /\ ~seen[p].file => sent[p] = 1
    /\ img.op # "" /\ ~img.hit => img.sent = 1
    /\ img.op # "" /\ img.hit => img.sent = 0

\* A miss whose request timed out has ended, one request sent.
C15_Witness ==
    \E p \in Callers :
        /\ pc[p] = "done" /\ ~seen[p].mem /\ ~seen[p].file
        /\ resp[p].err = "timeout" /\ sent[p] = 1

(***************************************************************************)
(* The round trip of the two tiers.                                        *)
(***************************************************************************)
\* C12: a lookup that is served from the memory tier, or from the file when
\* the memory tier does not hold the key, returns an image that a call made
\* and stored under that key, the identical data.
C12_LookupReturnsStoredImage ==
    \A p \in Callers :
        pc[p] = "done" /\ result[p] # None /\ (seen[p].mem \/ reads[p] = 1)
            => result[p] \in Puts(KeyOf(p))

(***************************************************************************)
(* Bodies that cannot be decoded.                                          *)
(***************************************************************************)
\* The service answered 200 with an image content type.
ImageAnswer(rs) == rs.err = "none" /\ rs.status = 200 /\ IsImageType(rs.ctype)

\* C13: when the body of an image answer cannot be decoded, the call does
\* not fail and what it delivers is the fetched bytes themselves, unchanged,
\* in get_object_image as in _get_or_create_tile.
C13_UndecodableBodyDeliveredAsFetched ==
    /\ \A p \in Callers :
        pc[p] = "done" /\ ImageAnswer(resp[p]) /\ ~resp[p].decodable
            => result[p] # None /\ Prov(result[p]) = "fetched"
    /\ img.op # "" /\ ~img.hit /\ ImageAnswer(img.resp) /\ ~img.resp.decodable
            => img.result # None /\ Prov(img.result) = "fetched"

\* An image a page can show: a data URI that holds bytes.
Displayable(uri) ==
    /\ uri # None
    /\ uri # EmptyString
    /\ uri.prefix \in {JpegPrefix, SvgPrefix}
    /\ B64Decode(Payload(uri)) # EmptyBytes

\* C14: whatever the fetch and the decoding give, get_object_image and
\* _get_or_create_tile return and cache an image that can be shown, and a
\* failed fetch or a failed decoding gives a procedural image: never an
\* empty string, never None.
C14_AlwaysDisplayableImage ==
    /\ \A p \in Callers :
        pc[p] = "done" /\ sent[p] > 0
            => /\ Displayable(result[p])
               /\ Entry(tile_cache, KeyOf(p)) # None
               /\ ~(ImageAnswer(resp[p]) /\ resp[p].decodable)
                    => Prov(result[p]) = "procedural"
    /\ img.op # ""
            => /\ Displayable(img.result)
               /\ Displayable(Entry(image_cache, img.key))
               /\ ~img.hit /\ ~(ImageAnswer(img.resp) /\ img.resp.decodable)
                    => Prov(img.result) = "procedural"

(***************************************************************************)
(* The procedural generators.                                              *)
(***************************************************************************)
\* C20: _create_procedural_space_tile and _create_fallback_image always
\* return an image: the fixed static placeholder when the synthesis raises,
\* the procedural JPEG otherwise; no exception and no None leaves them.
C20_GeneratorsAlwaysReturnImage ==
    /\ Compared =>
        \A n \in {1, 2} :
            /\ Displayable(k_tiles[n])
            /\ SynthesisRaises(Seed(k_pair[n].ra, k_pair[n].dec)) => k_tiles[n] = StaticTile
            /\ ~SynthesisRaises(Seed(k_pair[n].ra, k_pair[n].dec))
                => IsJpegUri(k_tiles[n]) /\ Prov(k_tiles[n]) = "procedural"
    /\ img.op # "" /\ ~img.hit /\ ~FetchGivesImage(img.resp)
        => Displayable(img.result) /\ Prov(img.result) = "procedural"

\* One generation has raised and given the placeholder, another has drawn
\* its stars.
C20_Witness ==
    /\ Compared
    /\ k_tiles[1] = StaticTile
    /\ IsJpegUri(k_tiles[2]) /\ Prov(k_tiles[2]) = "procedural"

(***************************************************************************)
(* Which answers of the service are used.                                  *)
(***************************************************************************)
\* The content type names an image.
DeclaresImage(ctype) == ctype \in {"image/jpeg", "image/png", "image/gif"}

Answered == f_resp # NoResponse

\* C16 as stated: an answer is used as the image if and only if its status
\* is one of 200..299 and its content type is an image type.
C16_UsedIffStatus2xxAndImageType ==
    Answered =>
        LET ok == f_resp.err = "none" /\ f_resp.status \in 200..299
                    /\ DeclaresImage(f_resp.ctype)
        IN  /\ f_body <=> ok
            /\ f_survey # None <=> ok
            /\ Prov(f_tile) = "enhanced" <=> ok /\ f_resp.decodable

\* C16 as amended: an answer is used as the image if and only if its status
\* is 200 and its content type is an image type (and, in _create_space_tile,
\* its body can be decoded); every other answer, those of another 2xx status
\* among them, and every exception is a failed fetch.
C16_UsedIffStatus200AndImageType ==
    Answered =>
        LET ok == f_resp.err = "none" /\ f_resp.status = 200 /\ DeclaresImage(f_resp.ctype)
        IN  /\ f_body <=> ok
            /\ f_survey # None <=> ok
            /\ ok => f_survey = JpegUri(FetchedBytes(SurveyName(f_req.survey), f_req.ra,
                                                     f_req.dec))
            /\ Prov(f_tile) = "enhanced" <=> ok /\ f_resp.decodable
            /\ ~(ok /\ f_resp.decodable) => Prov(f_tile) \in {"procedural", "static"}

\* An answer of status 206 with an image content type has been refused by
\* the three fetchers.
C16_Witness ==
    /\ Answered
    /\ f_resp.status = 206 /\ DeclaresImage(f_resp.ctype)
    /\ ~f_body /\ f_survey = None /\ Prov(f_tile) # "enhanced"

(***************************************************************************)
(* Properties of get_multi_wavelength_gallery.                             *)
(***************************************************************************)
GalleryCalled == gl_call.name # ""

\* The fetch of a survey succeeds: 200 and an image content type.
Succeeded(rs) == rs.err = "none" /\ rs.status = 200 /\ DeclaresImage(rs.ctype)

\* The places in the returned list of the items of one survey of the table.
ItemsOf(n) ==
    { i \in 1..Len(gallery_images) :
        /\ gallery_images[i].survey = surveys[n].survey
        /\ gallery_images[i].category = surveys[n].category }

\* The place of a survey in the table.
Index(survey_name) == CHOOSE n \in 1..Len(surveys) : surveys[n].survey = survey_name

\* C17: a call that fetches returns exactly one item for each survey of the
\* table whose fetch succeeded and none for a survey whose fetch failed,
\* whatever the other fetches gave; an item of a survey holds the body fetched
\* for it.
C17_OneItemPerSucceededSurvey ==
    GalleryCalled /\ ~gl_call.hit =>
        /\ \A n \in 1..Len(surveys) :
            /\ Cardinality(ItemsOf(n)) = IF Succeeded(gl_net[surveys[n].survey]) THEN 1 ELSE 0
            /\ \A i \in ItemsOf(n) :
                gallery_images[i].image_url
                    = JpegUri(FetchedBytes(surveys[n].survey, gl_call.ra, gl_call.dec))
        /\ \A i \in 1..Len(gallery_images) :
            \/ gallery_images[i].category = "space_telescope"
            \/ \E n \in 1..Len(surveys) : i \in ItemsOf(n)

\* The first survey failed and the second and the last succeeded: the call
\* has returned items of the second and of the last, none of the first.
C17_Witness ==
    /\ GalleryCalled /\ ~gl_call.hit
    /\ ~Succeeded(gl_net[surveys[1].survey]) /\ ItemsOf(1) = {}
    /\ Succeeded(gl_net[surveys[2].survey]) /\ ItemsOf(2) # {}
    /\ Succeeded(gl_net[surveys[Len(surveys)].survey]) /\ ItemsOf(Len(surveys)) # {}

\* C18: in every list returned the items of one category are next to one
\* another, and the items of a category of the survey table come in the
\* order of the table.
C18_GroupedInDeclaredOrder ==
    \A i, j \in 1..Len(gallery_images) :
        i < j /\ gallery_images[i].category = gallery_images[j].category
            => /\ gallery_images[j - 1].category = gallery_images[j].category
               /\ gallery_images[j].category # "space_telescope"
                    => Index(gallery_images[i].survey) < Index(gallery_images[j].survey)

\* A list of four categories has been returned with a survey missing in the
\* middle of a category.
C18_Witness ==
    /\ GalleryCalled
    /\ ~Succeeded(gl_net["2MASS-H"])
    /\ \E i, j, k, l \in 1..Len(gallery_images) :
        /\ i < j /\ j < k /\ k < l
        /\ gallery_images[i].survey = "2MASS-J"
        /\ gallery_images[j].survey = "2MASS-K"
        /\ gallery_images[k].category = "radio"
        /\ gallery_images[l].category = "space_telescope"

\* The places of the items of category space_telescope.
TelescopeItems == { i \in 1..Len(gallery_images) : gallery_images[i].category = "space_telescope" }

\* C19: for a name that is a key of the Hubble or of the JWST table, letter
\* for letter, the list returned has an item of category space_telescope
\* from each table that has the name, whatever the fetches of the surveys
\* gave; for a name in neither table it has none.
C19_CuratedTelescopeItems ==
    GalleryCalled =>
        /\ gl_call.name \in hubble_objects
            <=> \E i \in TelescopeItems :
                    /\ gallery_images[i].survey = "Hubble Space Telescope"
                    /\ gallery_images[i].image_url = UrlOf("hubblesite.org", gl_call.name)
        /\ gl_call.name \in jwst_objects
            <=> \E i \in TelescopeItems :
                    /\ gallery_images[i].survey = "James Webb Space Telescope"
                    /\ gallery_images[i].image_url = UrlOf("webbtelescope.org", gl_call.name)
        /\ gl_call.name \in hubble_objects \cup jwst_objects => TelescopeItems # {}
        /\ gl_call.name \notin hubble_objects \cup jwst_objects => TelescopeItems = {}

\* Every fetch failed and the list returned for the Andromeda Galaxy is its
\* one Hubble item.
C19_Witness ==
    /\ GalleryCalled /\ ~gl_call.hit
    /\ gl_call.name = "Andromeda Galaxy"
    /\ \A sv \in SurveyNames : ~Succeeded(gl_net[sv])
    /\ Len(gallery_images) = 1
    /\ TelescopeItems = {1}

(***************************************************************************)
(* Properties of proxy_nasa_image.                                         *)
(***************************************************************************)
ProxyCalled == px_url # NoUrl

EndsWith(s, d) == Len(s) >= Len(d) /\ SubSeq(s, Len(s) - Len(d) + 1, Len(s)) = d

\* The host is one of the listed domains or a subdomain of one.
ListedHost(host) ==
    \E domain \in nasa_domains : host = domain \/ EndsWith(host, "." \o domain)

\* C21: proxy_nasa_image sends a request only for a URL whose host is one of
\* the listed NASA domains or a subdomain of one, and only to such hosts; for
\* a URL of any other host no request goes out.
C21_RequestsOnlyToListedHosts ==
    ProxyCalled =>
        /\ \A n \in 1..Len(px_out) : ListedHost(px_out[n])
        /\ ~ListedHost(px_url.host) => px_out = <<>>

\* C22: every HTTP error raised inside proxy_nasa_image reaches the client
\* with its own status: 400 for a URL outside the allowed domains, S for an
\* upstream answer of status S other than 200, 504 for a timeout, and 500
\* only for an unexpected exception.
C22_ErrorsKeepTheirStatus ==
    ProxyCalled =>
        /\ px_raised.type = "HTTPException" => px_status = px_raised.status_code
        /\ ~DomainAllowed(px_url) => px_status = 400
        /\ px_up.kind = "response" /\ px_up.status # 200 => px_status = px_up.status
        /\ px_up.kind = "timeout" => px_status = 504
        /\ px_status = 500 => px_raised.type \notin {"HTTPException", "TimeoutException"}

(***************************************************************************)
(* Properties of get_object_details.                                       *)
(***************************************************************************)
CatalogIds == { sample_data[n].id : n \in 1..Len(sample_data) }

\* C23: get_object_details(object_id) answers, for the id of an object of
\* the catalog, with the object that has that id, and with 404 for an id
\* that no object of the catalog has.
C23_ObjectOfIdOr404 ==
    ob_reply # NoReply =>
        /\ ob_id \in CatalogIds => ob_reply.status = 200 /\ ob_reply.body.id = ob_id
        /\ ob_id \notin CatalogIds => ob_reply.status = 404

(***************************************************************************)
(* Properties of _add_coordinates.                                         *)
(***************************************************************************)
\* The square of the length of (x, y, z).
SquaredMagnitude(row) == MulFix(row.x, row.x) + MulFix(row.y, row.y) + MulFix(row.z, row.z)

\* A length within 1e-6 of 1 has a square within (1 - 1e-6)^2 and
\* (1 + 1e-6)^2, which are 1 - 2e-6 and 1 + 2e-6 to the eighth decimal.
WithinTolerance(m2) == One - 199 <= m2 /\ m2 <= One + 200

\* C24: for every right ascension and declination in range, the x, y, z that
\* _add_coordinates attaches to a row are a vector of length 1 within 1e-6;
\* the rows without a number are dropped and keep the others unchanged.
C24_CartesianOnUnitSphere ==
    /\ Len(co_out) = Len(DropNa(co_df))
    /\ \A n \in 1..Len(co_out) :
        /\ WithinTolerance(SquaredMagnitude(co_out[n]))
        /\ co_out[n].ra = DropNa(co_df)[n].ra /\ co_out[n].dec = DropNa(co_df)[n].dec

\* A frame of a row without a number and of a row off the axes has come back
\* as the one row, its three coordinates none of them zero.
C24_Witness ==
    /\ Len(co_df) = 2 /\ Len(co_out) = 1
    /\ co_out[1].ra = Number(279230) /\ co_out[1].dec = Number(38780)
    /\ co_out[1].x # 0 /\ co_out[1].y # 0 /\ co_out[1].z # 0
    /\ WithinTolerance(SquaredMagnitude(co_out[1]))

(***************************************************************************)
(* The two tiers under concurrent calls.                                   *)
(***************************************************************************)
\* C25: once the memory tier of a process holds an image for a key, the
\* image of that key never changes, whatever calls run and whatever their
\* fetches give.
C25_MemoryEntryNeverChanges ==
    [][\A key \in DOMAIN tile_cache :
          key \in DOMAIN tile_cache' => tile_cache'[key] = tile_cache[key]]_vars

\* A call is between open() and the end of the write of the file.
Writing(file) == \E p \in Callers : pc[p] = "write" /\ cache_file[p] = file

\* C26: in every reachable state in which the memory tier and the files both
\* hold an entry of a key, no write of that file under way, the two are the
\* same image.
C26_TiersAgree ==
    \A key \in DOMAIN tile_cache :
        CacheFile(key) \in DOMAIN disk /\ ~Writing(CacheFile(key))
            => FileOfTile(tile_cache[key]) = disk[CacheFile(key)]

(***************************************************************************)
(* The gallery asked again.                                                *)
(***************************************************************************)
\* C27: a call of get_multi_wavelength_gallery that comes after a call with
\* the same name and with coordinates that are the same to three decimals
\* returns the list of the first such call and sends no request, also when
\* that list is partial or has no item of a survey; no survey is fetched
\* again.
C27_SecondCallServedFromCache ==
    GalleryCalled /\ gl_call.again =>
        /\ gl_call.sent = 0
        /\ gallery_images = gl_first[<<gl_call.name, Fmt3(gl_call.ra), Fmt3(gl_call.dec)>>]

\* Every fetch of the first call failed; a call for a point that differs past
\* the third decimal has been given its list, which has no item of a survey,
\* and has sent nothing.
C27_Witness ==
    /\ GalleryCalled /\ gl_call.again /\ gl_call.sent = 0
    /\ gl_call.name = "Andromeda Galaxy"
    /\ gl_call.ra = 838224
    /\ \A sv \in SurveyNames : ~Succeeded(gl_net[sv])
    /\ Len(gallery_images) = 1
    /\ Cardinality(DOMAIN gl_first) >= 2

\* C28: for every zoom level z >= 1 the figure's visible range is
\* 60 / 2^(z - 1) degrees, its marker size multiplier and text size are
\* those of level min(z, 4), so non-decreasing in z and constant from 4 on,
\* and the axes stay centred on the centre given, whatever z is.
SizesOfLevel(f, level) ==
    /\ f.size_multiplier = zoom_levels[level].size_multiplier
    /\ f.text_size = zoom_levels[level].text_size

C28_ZoomSetsRangeAndSizes ==
    z_figs # <<NoFigure, NoFigure>> =>
        /\ \A i \in 1..2 :
            /\ z_figs[i].view_range * Pow2(z_figs[i].zoom_level - 1) = 60 * PerDegree
            /\ z_figs[i].xaxis_range[2] - z_figs[i].xaxis_range[1] = 2 * z_figs[i].view_range
            /\ z_figs[i].yaxis_range[2] - z_figs[i].yaxis_range[1] = z_figs[i].view_range
            /\ z_figs[i].zoom_level <= 4 => SizesOfLevel(z_figs[i], z_figs[i].zoom_level)
            /\ z_figs[i].zoom_level >= 4 => SizesOfLevel(z_figs[i], 4)
        /\ z_figs[1].zoom_level <= z_figs[2].zoom_level =>
            /\ z_figs[1].size_multiplier <= z_figs[2].size_multiplier
            /\ z_figs[1].text_size <= z_figs[2].text_size
        /\ z_figs[1].xaxis_range[1] + z_figs[1].xaxis_range[2]
               = z_figs[2].xaxis_range[1] + z_figs[2].xaxis_range[2]
        /\ z_figs[1].yaxis_range[1] + z_figs[1].yaxis_range[2]
               = z_figs[2].yaxis_range[1] + z_figs[2].yaxis_range[2]

\* Levels 2 and 6 drawn around a centre outside the sky (RA 400).
C28_Witness ==
    /\ z_figs[1].zoom_level = 2
    /\ z_figs[2].zoom_level = 6
    /\ z_figs[2].xaxis_range[1] > 360 * PerDegree
    /\ z_figs[2].view_range * 2^5 = 60 * PerDegree

\* C29: after a call of update_map fired by reset-view the camera is (0, 0),
\* the zoom is 1.0 and no object is selected, whatever the stores and the
\* relayoutData were.
C29_ResetViewRestoresDefaults ==
    m_last.trigger = "reset-view" =>
        /\ ~m_last.raised
        /\ stores.camera = [x |-> 0, y |-> 0]
        /\ stores.zoom = 10
        /\ stores.selected_obj = NoSelection

\* C30: a call of update_map fired by one layer toggle negates that layer's
\* flag and leaves the two other flags, the zoom and the selected object as
\* they were; two toggles of one layer in a row restore the flag.
FlagOf(trigger_id, st) ==
    IF trigger_id = "toggle-satellites" THEN st.show_sats
    ELSE IF trigger_id = "toggle-galaxies" THEN st.show_gals
    ELSE st.show_exos

C30_ToggleNegatesOneFlag ==
    m_last.trigger \in Toggles =>
        /\ ~m_last.raised
        /\ FlagOf(m_last.trigger, stores) = ~FlagOf(m_last.trigger, m_last.before)
        /\ \A other \in Toggles \ {m_last.trigger} :
               FlagOf(other, stores) = FlagOf(other, m_last.before)
        /\ stores.zoom = m_last.before.zoom
        /\ stores.selected_obj = m_last.before.selected_obj
        /\ m_prev.trigger = m_last.trigger =>
               FlagOf(m_last.trigger, stores) = FlagOf(m_last.trigger, m_prev.before)

====
